---------------------------- MODULE Spec2Model ----------------------------
(***************************************************************************)
(* A model of the coding agent's orchestration, safety and patch           *)
(* application core: the shell safety classifier and execution engine      *)
(* (src/src/commands/shell.ts), the edit application engine                 *)
(* (src/src/agent.ts), the proposal validators                             *)
(* (src/src/commands/validation.ts, src/src/services/intentClassifier.ts)  *)
(* and the main loop of the CLI (src/src/cli.ts).                          *)
(*                                                                         *)
(* Strings are sequences of one-character strings, so that trim, split,    *)
(* includes, startsWith, toLowerCase and replace are computed as the       *)
(* JavaScript runtime computes them.                                       *)
(***************************************************************************)
EXTENDS Integers, Sequences, FiniteSets, TLC

(***************************************************************************)
(* Bounds of the model.                                                    *)
(***************************************************************************)
\* Number of pieces (words, separators) a generated command string is made of.
MaxPieces == 4
\* Number of segments a generated edit.file path is made of.
MaxPathPieces == 3
\* Ticks of the clock observed while a subprocess runs.
MaxTicks == 3
\* Output chunks a subprocess may write.
MaxChunks == 2
\* User turns of one CLI session.
MaxTurns == 2
\* Steps of a compound intent.
MaxSteps == 2

(***************************************************************************)
(* String primitives, as String.prototype computes them                    *)
(***************************************************************************)
RECURSIVE Concat(_)
\* The concatenation of a sequence of strings (Array.prototype.join("")).
Concat(ss) ==
  IF ss = <<>> THEN <<>> ELSE Head(ss) \o Concat(Tail(ss))

\* String.prototype.startsWith
StartsWith(s, p) ==
  /\ Len(p) <= Len(s)
  /\ SubSeq(s, 1, Len(p)) = p

\* String.prototype.endsWith
EndsWith(s, p) ==
  /\ Len(p) <= Len(s)
  /\ SubSeq(s, Len(s) - Len(p) + 1, Len(s)) = p

RECURSIVE IndexFrom(_, _, _)
\* The least position i >= from at which p occurs in s; 0 when there is none.
IndexFrom(s, p, from) ==
  IF from + Len(p) - 1 > Len(s) THEN 0
  ELSE IF SubSeq(s, from, from + Len(p) - 1) = p THEN from
  ELSE IndexFrom(s, p, from + 1)

\* String.prototype.indexOf, 1-based; 0 when p does not occur (JavaScript's -1).
IndexOf(s, p) == IndexFrom(s, p, 1)

\* String.prototype.includes
Includes(s, p) == IndexOf(s, p) # 0

\* The lower-case letter of each upper-case letter.
LowerOf ==
  ("A" :> "a") @@ ("B" :> "b") @@ ("C" :> "c") @@ ("D" :> "d") @@ ("E" :> "e") @@ ("F" :> "f") @@
  ("G" :> "g") @@ ("H" :> "h") @@ ("I" :> "i") @@ ("J" :> "j") @@ ("K" :> "k") @@ ("L" :> "l") @@
  ("M" :> "m") @@ ("N" :> "n") @@ ("O" :> "o") @@ ("P" :> "p") @@ ("Q" :> "q") @@ ("R" :> "r") @@
  ("S" :> "s") @@ ("T" :> "t") @@ ("U" :> "u") @@ ("V" :> "v") @@ ("W" :> "w") @@ ("X" :> "x") @@
  ("Y" :> "y") @@ ("Z" :> "z")

\* String.prototype.toLowerCase
ToLowerCase(s) ==
  [ i \in 1..Len(s) |-> IF s[i] \in DOMAIN LowerOf THEN LowerOf[s[i]] ELSE s[i] ]

WhiteSpace == {" ", "\t", "\n"}

RECURSIVE TrimStart(_)
\* String.prototype.trimStart
TrimStart(s) ==
  IF s # <<>> /\ Head(s) \in WhiteSpace THEN TrimStart(Tail(s)) ELSE s

RECURSIVE TrimEnd(_)
\* String.prototype.trimEnd
TrimEnd(s) ==
  IF s # <<>> /\ s[Len(s)] \in WhiteSpace THEN TrimEnd(SubSeq(s, 1, Len(s) - 1)) ELSE s

\* String.prototype.trim
Trim(s) == TrimEnd(TrimStart(s))

RECURSIVE Split(_, _)
\* String.prototype.split(sep) for a one-character separator: empty fields are kept.
Split(s, sep) ==
  LET i == IndexOf(s, <<sep>>)
  IN  IF i = 0 THEN <<s>>
      ELSE <<SubSeq(s, 1, i - 1)>> \o Split(SubSeq(s, i + 1, Len(s)), sep)

\* Array.prototype.filter(Boolean) on an array of strings: drops the empty ones.
FilterBoolean(parts) == SelectSeq(parts, LAMBDA p : p # <<>>)

\* Array.prototype.includes
ArrayIncludes(arr, x) == \E i \in 1..Len(arr) : arr[i] = x

(***************************************************************************)
(* State                                                                   *)
(***************************************************************************)
VARIABLES
  \* --- shell safety classifier (src/src/commands/shell.ts) ---
  command,          \* the command string given to isCommandSafe
  shellSafetyEnv,   \* process.env.AGENT_SHELL_SAFETY ("unset" when not set)
  safety,           \* what isCommandSafe returned for command, or NotCalled
  typed,            \* the number of pieces the command string was composed of
  \* --- shell execution engine (src/src/commands/shell.ts) ---
  xCommand,         \* executeShellCommand: command
  xInteractive,     \* executeShellCommand: options.interactive
  xPc,              \* "idle", "exec" (execAsync pending), "spawned" (interactive
                    \* child running), "returned", "uncaught" (exception nobody catches)
  child,            \* the subprocess: status, exitCode, signalCode (as ChildProcess)
  xStdout,          \* output accumulated from the child's stdout
  xStderr,          \* output accumulated from the child's stderr
  elapsed,          \* ticks of the clock since the subprocess was started
  signalsSent,      \* the signals the agent (or exec's timer) sent to the subprocess
  xResult,          \* the ShellResult the promise resolved with, or NoResult
  \* --- file system, edit application engine and validators ---
  cwd,              \* process.cwd(), as the list of its path segments
  dirs,             \* the directories that exist (absolute, as segment lists)
  files,            \* the files that exist: absolute path -> content
  editFile,         \* the file field of the proposal under test
  pathTyped,        \* the number of pieces editFile was composed of
  applied,          \* the edit given to the last applyEdit call and its outcome
  validation,       \* the proposal given to the last validator call and its result
  \* --- the CLI's main loop (src/src/cli.ts) ---
  autoYes,          \* AUTO_YES: AGENT_CLI_AUTO_YES is "1", "true" or "yes"
  testMode,         \* TEST_MODE: AGENT_TEST_MODE is "1", "true" or "yes"
  pc,               \* where the main loop waits: "prompt", a question to the user, a
                    \* subprocess to run, "closed" (loop left) or "crashed"
  turn,             \* the number of inputs read at the prompt
  errorInInput,     \* whether the input read for this turn has error or Error: in it
  intent,           \* the intent of the current turn
  pendingCommands,  \* compound flow: pendingCommands
  loopIndex,        \* compound flow: the position of the for-loop in progress (over
                    \* intent.steps, then over pendingCommands)
  aggregatedProposals, \* the proposals under review (aggregatedProposals, proposals)
  outcome,          \* currentEntry.outcome of the current turn
  judged,           \* this turn's isCommandSafe calls: command and verdict
  answers,          \* this turn's rl.question answers to the review prompts
  handed,           \* this turn's executeShellCommand calls: command and exit
  editsApplied,     \* this turn's applyEdits calls: the proposals
  \* --- intent classification (src/src/services/intentClassifier.ts, src/src/agent.ts) ---
  userPrompt,       \* extractIntentWithContext: prompt
  classifyPc,       \* "idle", "first" (first callLLM pending), "retry" (second
                    \* callLLM pending), "done"
  llmCalls,         \* the prompts given to callLLM, in order
  llmReplies,       \* what callLLM returned for them, in order
  extracted,        \* what extractIntentWithContext returned or threw, or NotCalled
  \* --- relevance search (src/src/commands/search.ts) ---
  keyword,          \* searchCodebase: keyword
  searchOptions,    \* target, description and the planner's keywords
  matches,          \* the matches array: file, line, lineNumber, relevanceScore
  reranked,         \* whether the re-rank multipliers have been applied
  fileCache,        \* search.ts fileCache: list and cwd, and whether they are set
  scanned,          \* the cwd and the file list of the last searchCodebase call
  \* --- file references (src/utils/fileReference.ts) ---
  CACHE,            \* the in-memory map, as the set of hashes it has a reference for
  cacheJson,        \* cache.json on disk: whether it exists, parses, and the hashes it maps
  refCalls          \* the getFileReference calls in progress or resolved

safetyVars == <<command, shellSafetyEnv, safety, typed>>

execVars ==
  <<xCommand, xInteractive, xPc, child, xStdout, xStderr, elapsed, signalsSent, xResult>>

editVars == <<cwd, dirs, files, editFile, pathTyped, applied, validation>>

cliVars ==
  <<autoYes, testMode, pc, turn, errorInInput, intent, pendingCommands, loopIndex, aggregatedProposals,
    outcome, judged, answers, handed, editsApplied>>

classifyVars == <<userPrompt, classifyPc, llmCalls, llmReplies, extracted>>

searchVars == <<keyword, searchOptions, matches, reranked>>

cacheVars == <<fileCache, scanned>>

refVars == <<CACHE, cacheJson, refCalls>>

serviceVars == <<classifyVars, searchVars, cacheVars, refVars>>

vars == <<safetyVars, execVars, editVars, cliVars, serviceVars>>

NoIntent ==
  [intentType |-> "none", action |-> "none", command |-> <<>>,
   hasSteps |-> FALSE, steps |-> <<>>]

CliIdle ==
  /\ autoYes = FALSE
  /\ testMode = FALSE
  /\ pc = "prompt"
  /\ turn = 0
  /\ errorInInput = FALSE
  /\ intent = NoIntent
  /\ pendingCommands = <<>>
  /\ loopIndex = 0
  /\ aggregatedProposals = <<>>
  /\ outcome = "none"
  /\ judged = {}
  /\ answers = <<>>
  /\ handed = <<>>
  /\ editsApplied = <<>>

NotCalled == [called |-> FALSE]

ClassifyIdle ==
  /\ userPrompt = <<>>
  /\ classifyPc = "idle"
  /\ llmCalls = <<>>
  /\ llmReplies = <<>>
  /\ extracted = NotCalled

SearchIdle ==
  /\ keyword = <<>>
  /\ searchOptions = [target |-> <<>>, description |-> <<>>,
                      filenameKeywords |-> <<>>, contentKeywords |-> <<>>]
  /\ matches = <<>>
  /\ reranked = FALSE

\* fileCache with list and cwd undefined (search.ts 21-24): filled tells whether
\* the two are set, which they are together.
EmptyFileCache == [filled |-> FALSE, list |-> {}, cwd |-> <<>>]

CacheIdle ==
  /\ fileCache = EmptyFileCache
  /\ scanned = NotCalled

\* cache.json before the first store: no such file.
NoCacheFile == [exists |-> FALSE, valid |-> FALSE, map |-> {}]

RefIdle ==
  /\ CACHE = {}
  /\ cacheJson = NoCacheFile
  /\ refCalls = <<>>

ServiceIdle == ClassifyIdle /\ SearchIdle /\ CacheIdle /\ RefIdle

\* The project root /p, where the process runs.
ProjectRoot == << <<"p">> >>


EditIdle ==
  /\ cwd = ProjectRoot
  /\ dirs = {<<>>, ProjectRoot}
  /\ files = <<>>
  /\ editFile = <<>>
  /\ pathTyped = 0
  /\ applied = NotCalled
  /\ validation = NotCalled

(***************************************************************************)
(* Shell safety classifier: src/src/commands/shell.ts                      *)
(***************************************************************************)
SAFE_COMMANDS ==
  << <<"n","p","m">>, <<"y","a","r","n">>, <<"p","n","p","m">>, <<"g","i","t">>,
     <<"l","s">>, <<"p","w","d">>, <<"c","a","t">>, <<"h","e","a","d">>,
     <<"t","a","i","l">>, <<"g","r","e","p">>, <<"f","i","n","d">>,
     <<"m","k","d","i","r">>, <<"c","p">>, <<"m","v">>, <<"t","o","u","c","h">>,
     <<"e","c","h","o">>, <<"n","o","d","e">>, <<"t","s","c">> >>

DANGEROUS_COMMANDS ==
  << <<"r","m">>, <<"r","m","d","i","r">>, <<"d","e","l">>, <<"s","u","d","o">>,
     <<"c","h","m","o","d">>, <<"c","h","o","w","n">>, <<"d","d">>,
     <<"f","o","r","m","a","t">>, <<"m","k","f","s">>, <<"f","d","i","s","k">>,
     <<"k","i","l","l">>, <<"k","i","l","l","a","l","l">> >>

\* The package managers whose "run" subcommand is refused (shell.ts line 222).
PACKAGE_MANAGERS ==
  << <<"n","p","m">>, <<"y","a","r","n">>, <<"p","n","p","m">> >>

RUN == <<"r","u","n">>
SUDO == <<"s","u","d","o">>

NoReason == <<>>
ReasonNoCommand == <<"No command provided">>
ReasonEmpty == <<"Empty command">>
ReasonInvalidFormat == <<"Invalid command format">>
ReasonChaining == <<"Command chaining is not allowed for security">>
ReasonSudo == <<"Sudo commands are not allowed">>
ReasonRunScript == <<"Running user-defined scripts is not allowed">>
ReasonDangerous(base) == <<"Command '", base, "' is potentially dangerous">>
ReasonNotAllowed(base) == <<"Command '", base, "' is not in the allowed list">>

Unsafe(reason) == [called |-> TRUE, safe |-> FALSE, reason |-> reason]
Safe == [called |-> TRUE, safe |-> TRUE, reason |-> NoReason]

\* A plausible slip: the base command compared in the case it was typed in.
BaseCommandCaseSensitive(parts) == parts[1]

\* parts[0]?.toLowerCase() (shell.ts line 183).
BaseCommand(parts) == ToLowerCase(parts[1])

\* A plausible slip: the ';' operator forgotten.
ChainingCheckNoSemicolon(trimmedCommand) ==
  \/ Includes(trimmedCommand, <<"&","&">>)
  \/ Includes(trimmedCommand, <<"|","|">>)

\* The command-chaining test (shell.ts lines 197-201).
ChainingCheck(trimmedCommand) ==
  \/ Includes(trimmedCommand, <<"&","&">>)
  \/ Includes(trimmedCommand, <<"|","|">>)
  \/ Includes(trimmedCommand, <<";">>)

\* isCommandSafe(command): the checks in the order of the source. The function
\* reads nothing but its argument: process.env is not consulted.
isCommandSafe(cmd) ==
  IF cmd = <<>> THEN Unsafe(ReasonNoCommand)
  ELSE
  LET trimmedCommand == Trim(cmd)
      parts == Split(trimmedCommand, " ")
      baseCommand == BaseCommand(parts)
  IN  IF trimmedCommand = <<>> THEN Unsafe(ReasonEmpty)
      ELSE IF baseCommand = <<>> THEN Unsafe(ReasonInvalidFormat)
      ELSE IF ArrayIncludes(DANGEROUS_COMMANDS, baseCommand)
        THEN Unsafe(ReasonDangerous(baseCommand))
      ELSE IF ChainingCheck(trimmedCommand) THEN Unsafe(ReasonChaining)
      ELSE IF Includes(trimmedCommand, SUDO) THEN Unsafe(ReasonSudo)
      ELSE IF ~ArrayIncludes(SAFE_COMMANDS, baseCommand)
        THEN Unsafe(ReasonNotAllowed(baseCommand))
      ELSE IF /\ ArrayIncludes(PACKAGE_MANAGERS, baseCommand)
              /\ Len(parts) >= 2
              /\ parts[2] = RUN
        THEN Unsafe(ReasonRunScript)
      ELSE Safe

\* The tokenisation of executeInteractiveCommand: command.split(" ").filter(Boolean).
\* The first token is the program that is spawned, the rest are its arguments.
ExecTokens(cmd) == FilterBoolean(Split(cmd, " "))

(***************************************************************************)
(* Shell execution engine: src/src/commands/shell.ts                       *)
(***************************************************************************)
\* The timeout option, in ticks of the model's clock (cli.ts passes 60000 ms,
\* executeShellCommand defaults to 30000 ms).
TimeoutTicks == 2

NoResult == [returned |-> FALSE]
\* JavaScript values of mixed type (an exit code is a number, an error name or null).
Null == [t |-> "null", v |-> 0]
Num(n) == [t |-> "number", v |-> n]
Name(str) == [t |-> "string", v |-> str]
IsZero(x) == x.t = "number" /\ x.v = 0
\* ToBoolean: null, 0 and the empty string are falsy.
Truthy(x) == ~(x.t = "null" \/ IsZero(x) \/ (x.t = "string" /\ x.v = ""))

NoChild == [status |-> "none", exitCode |-> Null, signalCode |-> "none"]
RunningChild == [status |-> "running", exitCode |-> Null, signalCode |-> "none"]

\* One chunk of output a subprocess writes.
Chunk == <<"o", "\n">>
\* What a subprocess may write to stdout in one chunk: any text, among which the
\* working directory as pwd prints it, under the name it was given (/p) or under
\* the name the platform resolves it to (/r/p, when /p is a link to it).
StdoutChunks ==
  { Chunk, <<"/","p","\n">>, <<"/","r","/","p","\n">> }
\* error.message of a failed exec or spawn: never empty.
ErrorMessage == <<"C","o","m","m","a","n","d"," ","f","a","i","l","e","d">>
EmptyCommandMessage == <<"E","m","p","t","y"," ","c","o","m","m","a","n","d">>

\* Exit codes a subprocess may end with.
ExitCodes == {0, 1, 127}

ShellResult(out, err, code, cmd) ==
  [returned |-> TRUE, stdout |-> out, stderr |-> err, exitCode |-> code, command |-> cmd]

\* a || b on strings (undefined and "" are both falsy).
OrElseString(a, b) == IF a = <<>> THEN b ELSE a

\* error.code || 1 (shell.ts line 59).
OrElseOne(code) == IF Truthy(code) THEN code ELSE Num(1)

\* exitCode: code ?? 0 in the close handler (shell.ts line 123).
ExitCodeOfClose(code) == IF code.t = "null" THEN Num(0) ELSE code

ExecIdle ==
  /\ xCommand = <<>>
  /\ xInteractive = FALSE
  /\ xPc = "idle"
  /\ child = NoChild
  /\ xStdout = <<>>
  /\ xStderr = <<>>
  /\ elapsed = 0
  /\ signalsSent = <<>>
  /\ xResult = NoResult

\* The commands given to the execution engine.
ExecCommands ==
  { <<>>, <<" ">>, <<"l","s">>, <<"n","p","m"," "," ","r","u","n">>,
    <<"n","o","p","e">>, <<"p","w","d">> }

\* executeShellCommand(command, {interactive: true}) up to the spawn: an empty
\* token list resolves at once with exitCode 1, else the child is spawned and the
\* promise stays pending until its close event. The timeout option is not passed
\* on (shell.ts line 37) and no timer is started.
CallInteractive(cmd) ==
  /\ xPc = "idle"
  /\ xCommand' = cmd
  /\ xInteractive' = TRUE
  /\ IF ExecTokens(cmd) = <<>>
     THEN /\ xPc' = "returned"
          /\ xResult' = ShellResult(<<>>, EmptyCommandMessage, Num(1), cmd)
          /\ child' = child
     ELSE /\ xPc' = "spawned"
          /\ xResult' = xResult
          /\ child' = RunningChild
  /\ UNCHANGED <<xStdout, xStderr, elapsed, signalsSent>>

\* executeShellCommand(command, {interactive: false}): execAsync starts a shell
\* with the timeout and the 1 MB buffer.
CallCaptured(cmd) ==
  /\ xPc = "idle"
  /\ xCommand' = cmd
  /\ xInteractive' = FALSE
  /\ xPc' = "exec"
  /\ child' = RunningChild
  /\ UNCHANGED <<xStdout, xStderr, elapsed, signalsSent, xResult>>

\* The clock advances while the subprocess runs.
Tick ==
  /\ child.status = "running"
  /\ elapsed < MaxTicks
  /\ elapsed' = elapsed + 1
  /\ UNCHANGED <<xCommand, xInteractive, xPc, child, xStdout, xStderr, signalsSent, xResult>>

\* The child writes to stdout: the data handler accumulates it (shell.ts 101-105).
ChildStdoutData ==
  /\ child.status = "running"
  /\ Len(xStdout) < MaxChunks * Len(Chunk)
  /\ \E chunk \in StdoutChunks : xStdout' = xStdout \o chunk
  /\ UNCHANGED <<xCommand, xInteractive, xPc, child, xStderr, elapsed, signalsSent, xResult>>

\* The child writes to stderr: the data handler accumulates it (shell.ts 111-115).
ChildStderrData ==
  /\ child.status = "running"
  /\ Len(xStderr) < MaxChunks * Len(Chunk)
  /\ xStderr' = xStderr \o Chunk
  /\ UNCHANGED <<xCommand, xInteractive, xPc, child, xStdout, elapsed, signalsSent, xResult>>

\* Interactive mode: the program cannot be started (ENOENT, EACCES). The child
\* emits 'error'; executeInteractiveCommand registers no 'error' listener, so the
\* event is thrown as an exception outside the promise and outside the try block
\* of executeShellCommand: nothing catches it and the promise never settles.
InteractiveSpawnError ==
  /\ xPc = "spawned"
  /\ child.status = "running"
  /\ elapsed = 0 /\ xStdout = <<>> /\ xStderr = <<>>
  /\ child' = [status |-> "failed", exitCode |-> Null, signalCode |-> "none"]
  /\ xPc' = "uncaught"
  /\ UNCHANGED <<xCommand, xInteractive, xStdout, xStderr, elapsed, signalsSent, xResult>>

\* Interactive mode: the child exits with a code; the close handler resolves.
InteractiveCloseExit ==
  /\ xPc = "spawned"
  /\ child.status = "running"
  /\ \E code \in ExitCodes :
       /\ child' = [status |-> "exited", exitCode |-> Num(code), signalCode |-> "none"]
       /\ xResult' = ShellResult(Trim(xStdout), Trim(xStderr), ExitCodeOfClose(Num(code)), xCommand)
  /\ xPc' = "returned"
  /\ UNCHANGED <<xCommand, xInteractive, xStdout, xStderr, elapsed, signalsSent>>

\* Interactive mode: the child is terminated by a signal (sent by anyone: the
\* user's Ctrl-C, the OOM killer); close reports code null.
InteractiveCloseSignal ==
  /\ xPc = "spawned"
  /\ child.status = "running"
  /\ \E sig \in {"SIGTERM", "SIGKILL", "SIGINT"} :
       child' = [status |-> "exited", exitCode |-> Null, signalCode |-> sig]
  /\ xResult' = ShellResult(Trim(xStdout), Trim(xStderr), ExitCodeOfClose(Null), xCommand)
  /\ xPc' = "returned"
  /\ UNCHANGED <<xCommand, xInteractive, xStdout, xStderr, elapsed, signalsSent>>

\* Captured mode: the shell exits with code 0 and execAsync resolves.
CapturedSuccess ==
  /\ xPc = "exec"
  /\ child.status = "running"
  /\ child' = [status |-> "exited", exitCode |-> Num(0), signalCode |-> "none"]
  /\ xResult' = ShellResult(Trim(xStdout), Trim(xStderr), Num(0), xCommand)
  /\ xPc' = "returned"
  /\ UNCHANGED <<xCommand, xInteractive, xStdout, xStderr, elapsed, signalsSent>>

\* Captured mode: execAsync rejects and the catch block builds the result
\* (shell.ts 53-62). error.code is the exit code, an error name when the shell
\* could not be started or the buffer overflowed (then error.stdout and
\* error.stderr may be missing), or null when a signal ended the shell.
CapturedFailure ==
  /\ xPc = "exec"
  /\ child.status = "running"
  /\ \E code \in { Num(n) : n \in ExitCodes \ {0} }
                 \cup {Name("ENOENT"), Name("ERR_CHILD_PROCESS_STDIO_MAXBUFFER"), Null} :
       /\ code = Name("ENOENT") => (xStdout = <<>> /\ xStderr = <<>> /\ elapsed = 0)
       /\ child' = CASE code = Name("ENOENT") ->
                          [status |-> "failed", exitCode |-> Null, signalCode |-> "none"]
                     [] code.t = "number" ->
                          [status |-> "exited", exitCode |-> code, signalCode |-> "none"]
                     [] OTHER ->
                          [status |-> "exited", exitCode |-> Null, signalCode |-> "SIGTERM"]
       /\ xResult' = ShellResult(OrElseString(xStdout, <<>>), OrElseString(xStderr, ErrorMessage),
                                 OrElseOne(code), xCommand)
  /\ xPc' = "returned"
  /\ UNCHANGED <<xCommand, xInteractive, xStdout, xStderr, elapsed, signalsSent>>

\* Captured mode: exec's timer fires after options.timeout and sends the kill
\* signal (SIGTERM) once.
CapturedTimeout ==
  /\ xPc = "exec"
  /\ child.status = "running"
  /\ elapsed >= TimeoutTicks
  /\ signalsSent = <<>>
  /\ signalsSent' = <<"SIGTERM">>
  /\ UNCHANGED <<xCommand, xInteractive, xPc, child, xStdout, xStderr, elapsed, xResult>>

ExecInit ==
  /\ ExecIdle
  /\ ServiceIdle
  /\ EditIdle
  /\ CliIdle
  /\ command = <<>>
  /\ shellSafetyEnv = "unset"
  /\ safety = NotCalled
  /\ typed = 0

ExecNext ==
  \/ \E cmd \in ExecCommands :
       CallInteractive(cmd) /\ UNCHANGED <<serviceVars, safetyVars, editVars, cliVars>>
  \/ \E cmd \in ExecCommands :
       CallCaptured(cmd) /\ UNCHANGED <<serviceVars, safetyVars, editVars, cliVars>>
  \/ Tick /\ UNCHANGED <<serviceVars, safetyVars, editVars, cliVars>>
  \/ ChildStdoutData /\ UNCHANGED <<serviceVars, safetyVars, editVars, cliVars>>
  \/ ChildStderrData /\ UNCHANGED <<serviceVars, safetyVars, editVars, cliVars>>
  \/ InteractiveSpawnError /\ UNCHANGED <<serviceVars, safetyVars, editVars, cliVars>>
  \/ InteractiveCloseExit /\ UNCHANGED <<serviceVars, safetyVars, editVars, cliVars>>
  \/ InteractiveCloseSignal /\ UNCHANGED <<serviceVars, safetyVars, editVars, cliVars>>
  \/ CapturedSuccess /\ UNCHANGED <<serviceVars, safetyVars, editVars, cliVars>>
  \/ CapturedFailure /\ UNCHANGED <<serviceVars, safetyVars, editVars, cliVars>>
  \/ CapturedTimeout /\ UNCHANGED <<serviceVars, safetyVars, editVars, cliVars>>

SpecExec == ExecInit /\ [][ExecNext]_vars

(***************************************************************************)
(* Claims about the shell execution engine (checked under SpecExec).       *)
(***************************************************************************)
\* The run of the command failed: it could not be started, ended with a non-zero
\* code, or was ended by a signal (the timeout's included).
ExecutionFailed ==
  \/ child.status = "failed"
  \/ child.status = "exited" /\ ~IsZero(child.exitCode)
  \/ ExecTokens(xCommand) = <<>> /\ xInteractive

CouldNotRun ==
  \/ child.status = "failed"
  \/ ExecTokens(xCommand) = <<>> /\ xInteractive

\* C9 (as stated): executeShellCommand never throws, in either mode; every failure
\* is returned as a ShellResult with a non-zero exitCode, and with a non-empty
\* stderr when the command could not be run.
C9_NeverThrowsFailureIsNonZero ==
  /\ xPc # "uncaught"
  /\ (child.status \in {"failed", "exited"} \/ xPc = "returned") => xResult.returned
  /\ (xResult.returned /\ ExecutionFailed) => ~IsZero(xResult.exitCode)
  /\ (xResult.returned /\ CouldNotRun) => xResult.stderr # <<>>

\* C10 (as stated): interactive execution is time-boxed: once the timeout has
\* elapsed the running subprocess has been sent the graceful termination signal,
\* and it is force-killed only after that signal.
C10_InteractiveTimeBoxed ==
  /\ (xInteractive /\ child.status = "running" /\ elapsed >= TimeoutTicks)
        => (signalsSent # <<>> /\ signalsSent[1] = "SIGTERM")
  /\ \A i \in 1..Len(signalsSent) :
        signalsSent[i] = "SIGKILL" => \E j \in 1..(i - 1) : signalsSent[j] = "SIGTERM"

\* C11 (as stated): for the bare command pwd, the stdout executeShellCommand
\* returns is the cwd it was given, whatever the subprocess printed.
C11_PwdFromKnownCwd ==
  (xResult.returned /\ Trim(xCommand) = <<"p","w","d">>)
    => xResult.stdout = <<"/">> \o cwd[1]

(***************************************************************************)
(* Paths (Node's path module, POSIX) and the file system                   *)
(***************************************************************************)
RECURSIVE Join(_, _)
\* Array.prototype.join(sep)
Join(parts, sep) ==
  IF parts = <<>> THEN <<>>
  ELSE IF Len(parts) = 1 THEN parts[1]
  ELSE parts[1] \o sep \o Join(Tail(parts), sep)

\* path.isAbsolute
IsAbsolute(str) == str # <<>> /\ str[1] = "/"

DotDot == <<".", ".">>
Dot == <<".">>

\* The parent of an absolute directory; the root is its own parent.
Parent(segs) == IF segs = <<>> THEN <<>> ELSE SubSeq(segs, 1, Len(segs) - 1)

RECURSIVE NormalizeOnto(_, _)
\* The lexical normalisation of path.resolve: "" and "." are dropped, ".." pops.
NormalizeOnto(stack, segs) ==
  IF segs = <<>> THEN stack
  ELSE LET c == Head(segs)
       IN  IF c = <<>> \/ c = Dot THEN NormalizeOnto(stack, Tail(segs))
           ELSE IF c = DotDot THEN NormalizeOnto(Parent(stack), Tail(segs))
           ELSE NormalizeOnto(Append(stack, c), Tail(segs))

\* path.resolve(file), against the working directory wd; the result as segments.
PathResolve(wd, file) ==
  NormalizeOnto(IF IsAbsolute(file) THEN <<>> ELSE wd, Split(file, "/"))

\* The string of an absolute path: "/" for the root, else "/a/b".
PathString(segs) ==
  IF segs = <<>> THEN <<"/">>
  ELSE Concat([ i \in 1..Len(segs) |-> <<"/">> \o segs[i] ])

RECURSIVE DirnameEnd(_, _, _)
\* The scan of path.dirname from the end of the string: the index (1-based) of the
\* slash that ends the directory part, 0 when there is none.
DirnameEnd(str, i, matchedSlash) ==
  IF i < 2 THEN 0
  ELSE IF str[i] = "/"
       THEN IF ~matchedSlash THEN i ELSE DirnameEnd(str, i - 1, matchedSlash)
       ELSE DirnameEnd(str, i - 1, FALSE)

\* path.dirname
Dirname(str) ==
  IF str = <<>> THEN Dot
  ELSE LET end == DirnameEnd(str, Len(str), TRUE)
       IN  IF end = 0 THEN (IF str[1] = "/" THEN <<"/">> ELSE Dot)
           ELSE IF str[1] = "/" /\ end = 2 THEN <<"/", "/">>
           ELSE SubSeq(str, 1, end - 1)

RECURSIVE Walk(_, _, _)
\* The operating system's resolution of a path, component by component: every
\* component is looked up in a directory that exists. at is the place reached.
Walk(ds, cur, segs) ==
  IF segs = <<>> THEN [ok |-> TRUE, at |-> cur]
  ELSE IF cur \notin ds THEN [ok |-> FALSE, at |-> cur]
  ELSE LET c == Head(segs)
       IN  IF c = <<>> \/ c = Dot THEN Walk(ds, cur, Tail(segs))
           ELSE IF c = DotDot THEN Walk(ds, Parent(cur), Tail(segs))
           ELSE Walk(ds, Append(cur, c), Tail(segs))

\* The place a path names for the operating system (ok = FALSE: ENOENT, ENOTDIR).
Lookup(ds, wd, str) ==
  IF str = <<>> THEN [ok |-> FALSE, at |-> wd]
  ELSE Walk(ds, IF IsAbsolute(str) THEN <<>> ELSE wd, Split(str, "/"))

\* fs.readFile(path, "utf8"): the content, or a failure (no such file, a directory).
ReadFile(ds, fl, wd, str) ==
  LET l == Lookup(ds, wd, str)
  IN  IF l.ok /\ l.at \in DOMAIN fl
      THEN [ok |-> TRUE, content |-> fl[l.at]]
      ELSE [ok |-> FALSE, content |-> <<>>]

RECURSIVE MkdirWalk(_, _, _, _)
\* fs.mkdir(path, {recursive: true}), component by component: a missing directory
\* is created, a file in the way fails the call (the directories made so far stay).
MkdirWalk(ds, fl, cur, segs) ==
  IF segs = <<>> THEN [ok |-> TRUE, dirs |-> ds]
  ELSE LET c == Head(segs)
       IN  IF c = <<>> \/ c = Dot THEN MkdirWalk(ds, fl, cur, Tail(segs))
           ELSE IF c = DotDot THEN MkdirWalk(ds, fl, Parent(cur), Tail(segs))
           ELSE IF Append(cur, c) \in DOMAIN fl THEN [ok |-> FALSE, dirs |-> ds]
           ELSE MkdirWalk(ds \cup {Append(cur, c)}, fl, Append(cur, c), Tail(segs))

Mkdir(ds, fl, wd, str) ==
  IF str = <<>> THEN [ok |-> FALSE, dirs |-> ds]
  ELSE MkdirWalk(ds, fl, IF IsAbsolute(str) THEN <<>> ELSE wd, Split(str, "/"))

\* fs.writeFile(path, content): a whole-file overwrite; fails on a directory or
\* when the parent directory is missing.
WriteFile(ds, fl, wd, str, content) ==
  LET l == Lookup(ds, wd, str)
  IN  IF l.ok /\ l.at \notin ds /\ l.at # <<>> /\ Parent(l.at) \in ds
             /\ (str[Len(str)] # "/")
      THEN [ok |-> TRUE,
            files |-> [ f \in DOMAIN fl \cup {l.at} |-> IF f = l.at THEN content ELSE fl[f] ]]
      ELSE [ok |-> FALSE, files |-> fl]

(***************************************************************************)
(* Edit application engine: src/src/agent.ts                               *)
(***************************************************************************)
RECURSIVE ExpandReplacement(_, _, _, _)
\* The replacement text of String.prototype.replace with a string pattern: $$ is a
\* dollar and $& the match (the two patterns for the text before and after the
\* match need quote characters no replacement text of the model contains).
ExpandReplacement(repl, matched, before, after) ==
  IF repl = <<>> THEN <<>>
  ELSE IF repl[1] = "$" /\ Len(repl) >= 2 /\ repl[2] \in {"$", "&"}
       THEN (IF repl[2] = "$" THEN <<"$">> ELSE matched)
            \o ExpandReplacement(SubSeq(repl, 3, Len(repl)), matched, before, after)
       ELSE <<repl[1]>> \o ExpandReplacement(Tail(repl), matched, before, after)

\* String.prototype.replace(pattern, replacement) with a string pattern: the first
\* occurrence only.
StringReplace(str, pat, repl) ==
  LET i == IndexOf(str, pat)
  IN  IF i = 0 THEN str
      ELSE LET before == SubSeq(str, 1, i - 1)
               after == SubSeq(str, i + Len(pat), Len(str))
           IN  before \o ExpandReplacement(repl, pat, before, after) \o after

ErrPathEscape == "Failed to apply edit: Edit path escapes project root"
ErrNotFound == "Failed to apply edit: Original snippet not found in file"
ErrFileSystem == "Failed to apply edit: file system error"

\* A plausible slip: the check on the raw edit.file instead of the resolved path.
InsideProjectRootUnresolved(wd, file) ==
  StartsWith(file, PathString(wd)) \/ ~IsAbsolute(file)

\* path.resolve(edit.file).startsWith(projectRoot) (agent.ts line 233,
\* intentClassifier.ts line 243).
InsideProjectRoot(wd, file) ==
  StartsWith(PathString(PathResolve(wd, file)), PathString(wd))

\* A plausible slip: the separating newline added whatever the content ends with.
AppendAlwaysSeparated(content, replacement) ==
  content \o (IF content # <<>> THEN <<"\n">> ELSE <<>>) \o replacement \o <<"\n">>

\* The append branch (agent.ts 246-249): content + needsNl + replacement + "\n".
AppendTo(content, replacement) ==
  LET needsNl == IF content # <<>> /\ ~EndsWith(content, <<"\n">>) THEN <<"\n">> ELSE <<>>
  IN  content \o needsNl \o replacement \o <<"\n">>

\* A plausible slip: the tail sliced from idx, so the original snippet stays.
SpliceKeepingOriginal(content, original, replacement) ==
  LET idx == IndexOf(content, original)
  IN  SubSeq(content, 1, idx - 1) \o replacement \o SubSeq(content, idx, Len(content))

\* The whole-file branch once the snippet is found (agent.ts 266-270):
\* content.slice(0, idx) + replacement + content.slice(idx + original.length).
SpliceFirst(content, original, replacement) ==
  LET idx == IndexOf(content, original)
  IN  SubSeq(content, 1, idx - 1) \o replacement
        \o SubSeq(content, idx + Len(original), Len(content))

\* The new content applyEdit computes from the current content (agent.ts 244-271);
\* ok = FALSE when the original snippet is found nowhere.
NewContent(content, edit) ==
  IF edit.lineNumber.t = "null"
  THEN [ok |-> TRUE, content |-> AppendTo(content, edit.replacement)]
  ELSE LET lines == Split(content, "\n")
           n == edit.lineNumber.v
           hasLine == n >= 1 /\ n <= Len(lines)
       IN  IF hasLine /\ lines[n] # <<>> /\ Includes(lines[n], edit.original)
           THEN [ok |-> TRUE,
                 content |-> Join([lines EXCEPT ![n] =
                                     StringReplace(lines[n], edit.original, edit.replacement)],
                                  <<"\n">>)]
           ELSE IF IndexOf(content, edit.original) = 0
                THEN [ok |-> FALSE, content |-> content]
                ELSE [ok |-> TRUE,
                      content |-> SpliceFirst(content, edit.original, edit.replacement)]

\* applyEdit(edit) on the file system (ds, fl) with working directory wd: the
\* outcome and the file system it leaves. A failure after mkdir keeps the
\* directories mkdir made.
applyEdit(ds, fl, wd, edit) ==
  IF ~InsideProjectRoot(wd, edit.file)
  THEN [ok |-> FALSE, error |-> ErrPathEscape, dirs |-> ds, files |-> fl]
  ELSE LET read == ReadFile(ds, fl, wd, edit.file)
           new == NewContent(read.content, edit)
       IN  IF ~new.ok
           THEN [ok |-> FALSE, error |-> ErrNotFound, dirs |-> ds, files |-> fl]
           ELSE LET made == Mkdir(ds, fl, wd, Dirname(edit.file))
                    written == WriteFile(made.dirs, fl, wd, edit.file, new.content)
                IN  IF ~made.ok
                    THEN [ok |-> FALSE, error |-> ErrFileSystem, dirs |-> made.dirs, files |-> fl]
                    ELSE IF ~written.ok
                    THEN [ok |-> FALSE, error |-> ErrFileSystem, dirs |-> made.dirs, files |-> fl]
                    ELSE [ok |-> TRUE, error |-> "", dirs |-> made.dirs, files |-> written.files]

RECURSIVE applyEditsSkippingFailures(_, _, _, _)
\* A plausible slip: a failing edit is skipped and the later ones still applied.
applyEditsSkippingFailures(ds, fl, wd, edits) ==
  IF edits = <<>> THEN [ok |-> TRUE, error |-> "", dirs |-> ds, files |-> fl, done |-> 0]
  ELSE LET out == applyEdit(ds, fl, wd, Head(edits))
           rest == applyEditsSkippingFailures(out.dirs, out.files, wd, Tail(edits))
       IN  IF out.ok THEN [rest EXCEPT !.done = @ + 1]
           ELSE [rest EXCEPT !.ok = FALSE, !.error = out.error]

RECURSIVE applyEdits(_, _, _, _)
\* applyEdits(edits) (agent.ts 291-295): for (const e of edits) await applyEdit(e);
\* the first failure is thrown out of the loop. done counts the edits written.
applyEdits(ds, fl, wd, edits) ==
  IF edits = <<>> THEN [ok |-> TRUE, error |-> "", dirs |-> ds, files |-> fl, done |-> 0]
  ELSE LET out == applyEdit(ds, fl, wd, Head(edits))
       IN  IF ~out.ok
           THEN [ok |-> FALSE, error |-> out.error, dirs |-> out.dirs, files |-> out.files,
                 done |-> 0]
           ELSE [applyEdits(out.dirs, out.files, wd, Tail(edits)) EXCEPT !.done = @ + 1]

(***************************************************************************)
(* Proposal validators: src/src/commands/validation.ts (validateEdit) and   *)
(* src/src/services/intentClassifier.ts (preflight, validateProposals)      *)
(***************************************************************************)
ValidationResult(valid, errs, warns) ==
  [isValid |-> valid, errors |-> errs, warnings |-> warns]

\* const dangerous = ["rm -rf", "sudo", "DELETE FROM", "DROP TABLE"]
DangerousContent ==
  << <<"r","m"," ","-","r","f">>, SUDO,
     <<"D","E","L","E","T","E"," ","F","R","O","M">>,
     <<"D","R","O","P"," ","T","A","B","L","E">> >>

\* path.basename: the last segment of the path, trailing slashes ignored.
Basename(str) ==
  LET segs == FilterBoolean(Split(str, "/"))
  IN  IF segs = <<>> THEN <<>> ELSE segs[Len(segs)]

RECURSIVE LastIndexOf(_, _, _)
\* The greatest position i <= from at which the character c occurs; 0 when none.
LastIndexOf(str, c, from) ==
  IF from < 1 THEN 0 ELSE IF str[from] = c THEN from ELSE LastIndexOf(str, c, from - 1)

\* path.extname: from the last dot of the basename, unless it is its first character.
Extname(str) ==
  LET b == Basename(str)
      d == LastIndexOf(b, ".", Len(b))
  IN  IF d <= 1 \/ b = DotDot THEN <<>> ELSE SubSeq(b, d, Len(b))

\* getFileType (validation.ts 68-93)
getFileType(filePath) ==
  LET ext == ToLowerCase(Extname(filePath))
      fileName == ToLowerCase(Basename(filePath))
  IN  IF \/ Includes(fileName, <<"c","o","n","f","i","g">>)
         \/ fileName = <<".","g","i","t","i","g","n","o","r","e">>
         \/ fileName = <<".","e","n","v">>
      THEN "config"
      ELSE IF ext \in { <<".","t","s">>, <<".","j","s">>, <<".","t","s","x">>, <<".","j","s","x">> }
      THEN "javascript"
      ELSE IF ext = <<".","p","y">> THEN "python"
      ELSE IF ext = <<".","j","s","o","n">> THEN "json"
      ELSE "unknown"

Closer(open) == CASE open = "{" -> "}" [] open = "[" -> "]" [] OTHER -> ")"

RECURSIVE BracketScan(_, _)
\* The bracket scan of validateJavaScript: "unmatched" at the first closing bracket
\* that does not close the last open one, "unclosed" when brackets stay open.
BracketScan(code, stack) ==
  IF code = <<>> THEN (IF stack # <<>> THEN "unclosed" ELSE "balanced")
  ELSE IF Head(code) \in {"{", "[", "("} THEN BracketScan(Tail(code), <<Head(code)>> \o stack)
  ELSE IF Head(code) \in {"}", "]", ")"}
       THEN IF stack = <<>> \/ Closer(Head(stack)) # Head(code)
            THEN (IF stack = <<>> \/ Tail(stack) = <<>> THEN "unmatched" ELSE "unmatched+unclosed")
            ELSE BracketScan(Tail(code), Tail(stack))
  ELSE BracketScan(Tail(code), stack)

\* validateJavaScript (validation.ts 95-129): the errors and warnings it adds.
validateJavaScript(edit) ==
  LET scan == BracketScan(edit.replacement, <<>>)
      errs == CASE scan = "unmatched" -> << <<"Unmatched brackets detected">> >>
                [] scan = "unmatched+unclosed" ->
                     << <<"Unmatched brackets detected">>, <<"Unclosed brackets detected">> >>
                [] scan = "unclosed" -> << <<"Unclosed brackets detected">> >>
                [] OTHER -> <<>>
      warns == IF /\ Includes(edit.replacement, <<"i","m","p","o","r","t">>)
                  /\ ~Includes(edit.replacement, <<"f","r","o","m">>)
                  /\ ~Includes(edit.replacement, <<"r","e","q","u","i","r","e">>)
               THEN << <<"Import statement may be incomplete">> >> ELSE <<>>
  IN  [errors |-> errs, warnings |-> warns]

\* validatePython (validation.ts 131-146): a warning for every unindented line
\* that follows a line ending in a colon.
validatePython(edit) ==
  LET lines == Split(edit.replacement, "\n")
      hit(i) == /\ Trim(lines[i]) # <<>>
                /\ lines[i][1] \notin {" ", "\t"}
                /\ i > 1
                /\ lines[i - 1] # <<>>
                /\ EndsWith(Trim(lines[i - 1]), <<":">>)
      idx == SelectSeq([ i \in 1..Len(lines) |-> i ], hit)
  IN  [errors |-> <<>>,
       warnings |-> [ k \in 1..Len(idx) |-> <<"Line may need indentation", idx[k]>> ]]

\* validateConfig (validation.ts 148-160)
validateConfig(edit) ==
  LET patterns == Split(edit.replacement, "\n")
      bad == SelectSeq(patterns, LAMBDA q : Trim(q) # <<>> /\ Includes(q, <<"\\">>))
  IN  [errors |-> <<>>,
       warnings |-> IF EndsWith(edit.file, <<".","g","i","t","i","g","n","o","r","e">>)
                    THEN [ k \in 1..Len(bad) |->
                           <<"Backslashes in .gitignore patterns may not work as expected">> ]
                    ELSE <<>>]

\* JSON.parse succeeds: decided for the replacement texts of the model, of which
\* these are the JSON texts.
JsonParses(text) == Trim(text) \in { <<"1">>, <<"{","}">>, <<"[","]">> }

\* validateJson (validation.ts 162-169)
validateJson(edit) ==
  [errors |-> IF JsonParses(edit.replacement) THEN <<>> ELSE << <<"Invalid JSON syntax">> >>,
   warnings |-> <<>>]

\* validateSafetyChecks (validation.ts 171-187): case-sensitive, one error per hit.
validateSafetyChecks(edit) ==
  LET hits == SelectSeq(DangerousContent, LAMBDA d : Includes(edit.replacement, d))
  IN  [errors |-> [ k \in 1..Len(hits) |->
                     <<"Potentially dangerous operation detected: ", hits[k]>> ],
       warnings |-> IF Len(edit.replacement) > 10000
                    THEN << <<"Very large change detected - please review carefully">> >>
                    ELSE <<>>]

\* validateEdit(edit) (validation.ts 10-66). The path of the file is not examined:
\* the file is only read, when a line number is given.
validateEdit(ds, fl, wd, edit) ==
  IF edit.lineNumber.t # "null" /\ ~ReadFile(ds, fl, wd, edit.file).ok
  THEN ValidationResult(FALSE,
         << <<"File ", edit.file, " does not exist or is not readable">> >>, <<>>)
  ELSE LET fileType == getFileType(edit.file)
           typed1 == CASE fileType = "javascript" -> validateJavaScript(edit)
                       [] fileType = "python" -> validatePython(edit)
                       [] fileType = "config" -> validateConfig(edit)
                       [] fileType = "json" -> validateJson(edit)
                       [] OTHER -> [errors |-> <<>>, warnings |-> <<>>]
           safetyChecks == validateSafetyChecks(edit)
           errs == typed1.errors \o safetyChecks.errors
       IN  ValidationResult(errs = <<>>, errs, typed1.warnings \o safetyChecks.warnings)

\* preflight passes: the marker for "return null".
PreflightPass == [isValid |-> TRUE, errors |-> <<>>, warnings |-> <<"preflight passed">>]

\* preflight(edit) (intentClassifier.ts 239-264): the path test on the resolved
\* path's string, then the denylist, case-insensitively, first hit only.
preflight(wd, edit) ==
  IF ~InsideProjectRoot(wd, edit.file)
  THEN ValidationResult(FALSE, << <<"File path escapes project root: ", edit.file>> >>, <<>>)
  ELSE LET hits == SelectSeq(DangerousContent,
                     LAMBDA d : Includes(ToLowerCase(edit.replacement), ToLowerCase(d)))
       IN  IF hits # <<>>
           THEN ValidationResult(FALSE,
                  << <<"Potentially dangerous operation detected: ", hits[1]>> >>, <<>>)
           ELSE PreflightPass

MAX_CHARS == 18000

\* pSize of chunkProposals (intentClassifier.ts 219-224)
ProposalSize(q) ==
  Len(q.file) + Len(q.original) + Len(q.replacement) + Len(q.explanation) + 64

RECURSIVE ChunkLoop(_, _, _, _)
\* The loop of chunkProposals: chunks closed so far, the current chunk, its size.
ChunkLoop(rest, chunks, current, size) ==
  IF rest = <<>> THEN (IF current # <<>> THEN Append(chunks, current) ELSE chunks)
  ELSE LET q == Head(rest)
           pSize == ProposalSize(q)
       IN  IF size + pSize > MAX_CHARS /\ current # <<>>
           THEN ChunkLoop(Tail(rest), Append(chunks, current), <<q>>, pSize)
           ELSE ChunkLoop(Tail(rest), chunks, Append(current, q), size + pSize)

\* chunkProposals (intentClassifier.ts 213-237)
chunkProposals(proposals) == ChunkLoop(proposals, <<>>, <<>>, 0)

FALLBACK ==
  ValidationResult(TRUE, <<>>, << <<"Validator returned no result; proceed with caution">> >>)

ParseFailure ==
  ValidationResult(TRUE, <<>>,
    << <<"Validator failed to parse response; proceed with caution">> >>)

\* callLLM(chunk) (intentClassifier.ts 266-316) given the Reasoning Service's
\* response: an unparseable text yields one caution result per proposal, a parsed
\* array is returned as it is, whatever its length.
callLLM(chunk, response) ==
  IF response.parses THEN response.results
  ELSE [ i \in 1..Len(chunk) |-> ParseFailure ]

\* indicesForLLM of validateProposals (intentClassifier.ts 327-336): the indices
\* of the proposals preflight let through, in order (from 1 here).
IndicesForLLM(wd, proposals) ==
  SelectSeq([ i \in 1..Len(proposals) |-> i ],
            LAMBDA i : preflight(wd, proposals[i]) = PreflightPass)

\* validateProposals(proposals) (intentClassifier.ts 318-355), given the Reasoning
\* Service's response to each chunk (responses[k] answers chunk k).
validateProposals(wd, proposals, responses) ==
  LET pre == [ i \in 1..Len(proposals) |-> preflight(wd, proposals[i]) ]
      indicesForLLM == IndicesForLLM(wd, proposals)
      toLLM == [ k \in 1..Len(indicesForLLM) |-> proposals[indicesForLLM[k]] ]
      chunks == chunkProposals(toLLM)
      flat == Concat([ k \in 1..Len(chunks) |-> callLLM(chunks[k], responses[k]) ])
      pos(i) == CHOOSE k \in 1..Len(indicesForLLM) : indicesForLLM[k] = i
  IN  [ i \in 1..Len(proposals) |->
          IF pre[i] # PreflightPass THEN pre[i]
          ELSE IF pos(i) <= Len(flat) THEN flat[pos(i)] ELSE FALLBACK ]

(***************************************************************************)
(* dedupeProposals: src/unnamed/part_010                                   *)
(***************************************************************************)
RECURSIVE NumberString(_)
\* String(n) for a natural number n.
NumberString(n) ==
  LET digits == <<"0","1","2","3","4","5","6","7","8","9">>
  IN  IF n < 10 THEN <<digits[n + 1]>>
      ELSE NumberString(n \div 10) \o <<digits[(n % 10) + 1]>>

\* sha256(text) in hex: 64 hexadecimal digits, taken to be free of collisions.
\* The digest of a text of letters a, b, c is the text in the digits 0, 1, 2,
\* padded with f.
sha256(text) ==
  [ i \in 1..64 |->
      IF i > Len(text) THEN "f"
      ELSE CASE text[i] = "a" -> "0"
             [] text[i] = "b" -> "1"
             [] text[i] = "c" -> "2"
             [] OTHER -> "3" ]

\* A plausible slip: the line number left out of the key.
ProposalKeyWithoutLine(wd, q) ==
  PathString(PathResolve(wd, q.file)) \o <<"|">> \o sha256(q.original)
    \o <<"|">> \o sha256(q.replacement)

\* The key of a proposal in dedupeProposals (part_010 lines 69-73):
\* fileKey | ln | sha256(original) | sha256(replacement).
ProposalKey(wd, q) ==
  LET fileKey == PathString(PathResolve(wd, q.file))
      ln == IF q.lineNumber.t = "null" THEN <<"n","u","l","l">>
            ELSE NumberString(q.lineNumber.v)
  IN  fileKey \o <<"|">> \o ln \o <<"|">> \o sha256(q.original)
        \o <<"|">> \o sha256(q.replacement)

RECURSIVE DedupeLoop(_, _, _, _)
\* The loop of dedupeProposals (part_010 lines 67-77): the keys seen so far and
\* the proposals kept so far.
DedupeLoop(wd, rest, seen, result) ==
  IF rest = <<>> THEN result
  ELSE LET key == ProposalKey(wd, Head(rest))
       IN  IF key \in seen THEN DedupeLoop(wd, Tail(rest), seen, result)
           ELSE DedupeLoop(wd, Tail(rest), seen \cup {key}, Append(result, Head(rest)))

\* dedupeProposals(proposals) (part_010 lines 64-79)
dedupeProposals(wd, proposals) == DedupeLoop(wd, proposals, {}, <<>>)

(***************************************************************************)
(* applyEdit and the validators on generated paths.                        *)
(***************************************************************************)
\* The segments edit.file is made of.
PathSegments == { DotDot, Dot, <<"p">>, <<"p","2">>, <<"x">> }

\* The proposals the Reasoning Service may make for a file: an append or an edit
\* of line 1, of an empty or a present original, harmless or not.
ProposalsFor(file) ==
  { [file |-> file, original |-> o, replacement |-> r, lineNumber |-> ln,
     explanation |-> <<"e">>] :
      o \in { <<>>, <<"a">> },
      r \in { <<"b">>, <<"S","u","d","o">> },
      ln \in { Null, Num(1) } }

\* What the Reasoning Service may answer to a batch of one proposal: a text that
\* does not parse, or an array of zero, one or two verdicts. The shape asked for
\* is {"isValid":boolean,"errors":string[],"warnings":string[]}, and the answer
\* is taken as it is: a rejection may come with errors or without.
Responses ==
  LET verdicts == { ValidationResult(TRUE, <<>>, <<>>),
                    ValidationResult(FALSE, << <<"Looks wrong">> >>, <<>>),
                    ValidationResult(FALSE, <<>>, <<>>) }
  IN  { [parses |-> FALSE, results |-> <<>>] }
        \cup { [parses |-> TRUE, results |-> r] :
                 r \in {<<>>} \cup { <<v>> : v \in verdicts }
                              \cup { <<v, v>> : v \in verdicts } }

PathInit ==
  /\ ExecIdle
  /\ ServiceIdle
  /\ CliIdle
  /\ command = <<>> /\ shellSafetyEnv = "unset" /\ safety = NotCalled /\ typed = 0
  /\ cwd = ProjectRoot
  \* /p2, a sibling whose name starts with the root's name, may exist or not
  /\ dirs \in { {<<>>, ProjectRoot}, {<<>>, ProjectRoot, << <<"p","2">> >>} }
  /\ files = (<< <<"p">>, <<"x">> >> :> <<"a", "\n">>)
  /\ editFile = <<>>
  /\ pathTyped = 0
  /\ applied = NotCalled
  /\ validation = NotCalled

\* The Reasoning Service composes the proposal's file, segment by segment; the
\* first segment may be given from the root (an absolute path).
TypePathSegment ==
  /\ applied = NotCalled /\ validation = NotCalled
  /\ pathTyped < MaxPathPieces
  /\ \E seg \in PathSegments :
       \/ pathTyped = 0 /\ editFile' \in {seg, <<"/">> \o seg}
       \/ pathTyped > 0 /\ editFile' = editFile \o <<"/">> \o seg
  /\ pathTyped' = pathTyped + 1
  /\ UNCHANGED <<cwd, dirs, files, applied, validation>>

\* The call applyEdit(edit).
ApplyEdit ==
  /\ applied = NotCalled /\ validation = NotCalled
  /\ \E edit \in ProposalsFor(editFile) :
       LET out == applyEdit(dirs, files, cwd, edit)
       IN  /\ dirs' = out.dirs
           /\ files' = out.files
           /\ applied' = [called |-> TRUE, edit |-> edit, ok |-> out.ok, error |-> out.error,
                          dirsBefore |-> dirs, filesBefore |-> files]
  /\ UNCHANGED <<cwd, editFile, pathTyped, validation>>

\* The call validateEdit(edit).
ValidateEditCall ==
  /\ applied = NotCalled /\ validation = NotCalled
  /\ \E edit \in ProposalsFor(editFile) :
       validation' = [called |-> TRUE, by |-> "validateEdit", edit |-> edit,
                      result |-> validateEdit(dirs, files, cwd, edit)]
  /\ UNCHANGED <<cwd, dirs, files, editFile, pathTyped, applied>>

\* The call validateProposals([edit]), with the Reasoning Service's answer.
ValidateProposalsCall ==
  /\ applied = NotCalled /\ validation = NotCalled
  /\ \E edit \in ProposalsFor(editFile), resp \in Responses :
       validation' = [called |-> TRUE, by |-> "validateProposals", edit |-> edit,
                      result |-> validateProposals(cwd, <<edit>>, <<resp>>)[1]]
  /\ UNCHANGED <<cwd, dirs, files, editFile, pathTyped, applied>>

PathNext ==
  \/ TypePathSegment /\ UNCHANGED <<serviceVars, safetyVars, execVars, cliVars>>
  \/ ApplyEdit /\ UNCHANGED <<serviceVars, safetyVars, execVars, cliVars>>
  \/ ValidateEditCall /\ UNCHANGED <<serviceVars, safetyVars, execVars, cliVars>>
  \/ ValidateProposalsCall /\ UNCHANGED <<serviceVars, safetyVars, execVars, cliVars>>

SpecPath == PathInit /\ [][PathNext]_vars

(***************************************************************************)
(* Claims about the project-root boundary (checked under SpecPath).        *)
(***************************************************************************)
\* The path resolves outside the project root: the root is not an ancestor of it
\* (nor the path itself), segment by segment.
EscapesRoot(wd, file) ==
  LET res == PathResolve(wd, file)
  IN  ~(Len(res) >= Len(wd) /\ SubSeq(res, 1, Len(wd)) = wd)

IsPathEscapeError(e) == Len(e) = 2 /\ e[1] = "File path escapes project root: "

\* C2 (as stated): for every edit.file that resolves outside the project root,
\* a sibling directory with the root's name as a prefix included, applyEdit fails
\* with the path-escape error and creates or modifies no file and no directory.
C2_NoWriteOutsideRoot ==
  (applied.called /\ EscapesRoot(cwd, applied.edit.file))
    => /\ ~applied.ok
       /\ applied.error = ErrPathEscape
       /\ dirs = applied.dirsBefore
       /\ files = applied.filesBefore

\* C3 (as stated): every proposal whose file resolves outside the project root is
\* invalid with a path-escape error, whatever its other fields are and whatever
\* the Reasoning Service answers.
C3_EscapingProposalInvalid ==
  (validation.called /\ EscapesRoot(cwd, validation.edit.file))
    => /\ ~validation.result.isValid
       /\ \E i \in 1..Len(validation.result.errors) :
            IsPathEscapeError(validation.result.errors[i])

\* original occurs in text at position i.
OccursAt(text, original, i) ==
  /\ i + Len(original) - 1 <= Len(text)
  /\ SubSeq(text, i, i + Len(original) - 1) = original

Occurs(text, original) == \E i \in 1..(Len(text) + 1) : OccursAt(text, original, i)

\* The denylisted substrings the replacement contains, letter case ignored.
DenylistedIn(replacement) ==
  { k \in 1..Len(DangerousContent) :
      Occurs(ToLowerCase(replacement), ToLowerCase(DangerousContent[k])) }

\* C18 (as stated): a proposal whose replacement contains a denylisted substring,
\* in any letter case, is invalid with an error that names the substring,
\* whatever the Reasoning Service would say.
C18_DenylistedReplacementInvalid ==
  (validation.called /\ DenylistedIn(validation.edit.replacement) # {})
    => /\ ~validation.result.isValid
       /\ \E i \in 1..Len(validation.result.errors) :
            \E k \in DenylistedIn(validation.edit.replacement) :
              validation.result.errors[i] =
                <<"Potentially dangerous operation detected: ", DangerousContent[k]>>

(***************************************************************************)
(* applyEdit on generated file contents.                                   *)
(***************************************************************************)
MaxContent == 4
MaxEdits == 3

\* The file the edits address, as the proposal names it and as it resolves.
XFile == <<"x">>
XPath == ProjectRoot \o <<XFile>>

\* The contents the file may have before the edit: every text of up to
\* MaxContent characters over two letters and the newline.
Contents ==
  UNION { [1..n -> {"a", "b", "\n"}] : n \in 0..MaxContent }

\* The edits applied: an append or an edit of line 1, 2 or 3; the original is
\* empty, one letter or two; the replacement is empty, a letter, a text with a
\* newline, or one of the patterns String.prototype.replace expands.
ContentEdits ==
  { [file |-> XFile, original |-> o, replacement |-> r, lineNumber |-> ln,
     explanation |-> <<"e">>] :
      o \in { <<>>, <<"a">>, <<"a","b">> },
      r \in { <<>>, <<"c">>, <<"c","\n","a">>, <<"$","&">> },
      ln \in { Null, Num(1), Num(2), Num(3) } }

\* A second file of the project, missing at the start.
YFile == <<"y">>

\* The proposals of a list handed to applyEdits: an append to the file or to
\* the second file, or an edit of line 1 of the file.
BatchEdits ==
  { [file |-> e[1], original |-> <<"a">>, replacement |-> <<"c">>, lineNumber |-> e[2],
     explanation |-> <<"e">>] :
      e \in { <<XFile, Null>>, <<XFile, Num(1)>>, <<YFile, Null>> } }

\* The file is missing or holds one of the contents.
ContentInit ==
  /\ ExecIdle
  /\ ServiceIdle
  /\ CliIdle
  /\ command = <<>> /\ shellSafetyEnv = "unset" /\ safety = NotCalled /\ typed = 0
  /\ cwd = ProjectRoot
  /\ dirs = {<<>>, ProjectRoot}
  /\ files \in { <<>> } \cup { XPath :> c : c \in Contents }
  /\ editFile = XFile
  /\ pathTyped = 1
  /\ applied = NotCalled
  /\ validation = NotCalled

\* The call applyEdit(edit) on the file.
ApplyToContent ==
  /\ applied = NotCalled
  /\ \E edit \in ContentEdits :
       LET out == applyEdit(dirs, files, cwd, edit)
       IN  /\ dirs' = out.dirs
           /\ files' = out.files
           /\ applied' = [called |-> TRUE, edit |-> edit, ok |-> out.ok, error |-> out.error,
                          dirsBefore |-> dirs, filesBefore |-> files,
                          by |-> "applyEdit", times |-> 1, filesFirst |-> files]
  /\ UNCHANGED <<cwd, editFile, pathTyped, validation>>

\* The same edit applied a second time, after the first call succeeded.
ApplyAgain ==
  /\ applied.called /\ applied.by = "applyEdit" /\ applied.ok /\ applied.times = 1
  /\ LET out == applyEdit(dirs, files, cwd, applied.edit)
     IN  /\ dirs' = out.dirs
         /\ files' = out.files
         /\ applied' = [applied EXCEPT !.ok = out.ok, !.error = out.error,
                                       !.dirsBefore = dirs, !.filesBefore = files,
                                       !.times = 2]
  /\ UNCHANGED <<cwd, editFile, pathTyped, validation>>

\* The call applyEdits(edits) on a list of up to MaxEdits proposals.
ApplyEditsCall ==
  /\ applied = NotCalled
  /\ \E n \in 0..MaxEdits : \E edits \in [1..n -> BatchEdits] :
       LET out == applyEdits(dirs, files, cwd, edits)
       IN  /\ dirs' = out.dirs
           /\ files' = out.files
           /\ applied' = [called |-> TRUE, edits |-> edits, ok |-> out.ok,
                          error |-> out.error, done |-> out.done,
                          dirsBefore |-> dirs, filesBefore |-> files,
                          by |-> "applyEdits"]
  /\ UNCHANGED <<cwd, editFile, pathTyped, validation>>

ContentNext ==
  \/ ApplyToContent /\ UNCHANGED <<serviceVars, safetyVars, execVars, cliVars>>
  \/ ApplyEditsCall /\ UNCHANGED <<serviceVars, safetyVars, execVars, cliVars>>
  \/ ApplyAgain /\ UNCHANGED <<serviceVars, safetyVars, execVars, cliVars>>

SpecContent == ContentInit /\ [][ContentNext]_vars

(***************************************************************************)
(* Claims about the content applyEdit writes (checked under SpecContent).  *)
(***************************************************************************)
\* The content of the file in a file system; a missing file counts as empty.
ContentIn(fl) == IF XPath \in DOMAIN fl THEN fl[XPath] ELSE <<>>

\* text with the first occurrence of original replaced by the replacement text.
FirstReplaced(text, original, replacement) ==
  LET i == CHOOSE k \in 1..(Len(text) + 1) :
             /\ OccursAt(text, original, k)
             /\ \A j \in 1..(k - 1) : ~OccursAt(text, original, j)
  IN  SubSeq(text, 1, i - 1) \o replacement \o SubSeq(text, i + Len(original), Len(text))

\* The lines of a text: the pieces between its newlines.
LinesOf(text) == Split(text, "\n")

\* Line n of the text exists and contains original.
LineContains(text, n, original) ==
  /\ n >= 1 /\ n <= Len(LinesOf(text))
  /\ Occurs(LinesOf(text)[n], original)

\* applyEdit was called on its own; applyEdits was called on a list.
AppliedOne == applied.called /\ applied.by = "applyEdit"
AppliedList == applied.called /\ applied.by = "applyEdits"

\* The newline an append puts between the content and the replacement.
Separator(c) == IF c # <<>> /\ c[Len(c)] # "\n" THEN <<"\n">> ELSE <<>>

\* C12: an append (lineNumber = null) on content c writes c, a newline only if
\* c is non-empty and does not end in one, the replacement and a newline; c is
\* kept as it was, and the same append applied twice leaves two copies of the
\* replacement.
C12_AppendKeepsContent ==
  (AppliedOne /\ applied.edit.lineNumber = Null)
    => LET c == ContentIn(applied.filesBefore)
           c0 == ContentIn(applied.filesFirst)
           r == applied.edit.replacement
       IN  /\ applied.ok
           /\ XPath \in DOMAIN files
           /\ files[XPath] = c \o Separator(c) \o r \o <<"\n">>
           /\ applied.times = 2
                => files[XPath] = c0 \o Separator(c0) \o r \o <<"\n">> \o r \o <<"\n">>

\* C12 witness: an append applied twice to a content that did not end in a newline.
C12_Witness ==
  /\ AppliedOne /\ applied.edit.lineNumber = Null /\ applied.times = 2
  /\ applied.edit.replacement # <<>>
  /\ Separator(ContentIn(applied.filesFirst)) # <<>>

\* C13 (as stated): with lineNumber = n, whenever line n contains original
\* (an empty original and an empty line n included), only the first occurrence
\* of original inside line n is replaced by the replacement text and every
\* other line is unchanged.
C13_OnlyLineNChanged ==
  (/\ AppliedOne /\ applied.times = 1
   /\ applied.edit.lineNumber # Null
   /\ LineContains(ContentIn(applied.filesBefore), applied.edit.lineNumber.v,
                   applied.edit.original))
    => LET lines == LinesOf(ContentIn(applied.filesBefore))
           n == applied.edit.lineNumber.v
       IN  /\ applied.ok
           /\ ContentIn(files) =
                Join([lines EXCEPT ![n] = FirstReplaced(lines[n], applied.edit.original,
                                                         applied.edit.replacement)],
                     <<"\n">>)

\* C14: with lineNumber set and line n not containing original, the first
\* occurrence of original in the whole file is replaced and the rest is kept;
\* if original occurs nowhere, applyEdit fails with the snippet-not-found error
\* and the file is neither changed nor created.
C14_WholeFileFallback ==
  (/\ AppliedOne /\ applied.times = 1
   /\ applied.edit.lineNumber # Null
   /\ ~LineContains(ContentIn(applied.filesBefore), applied.edit.lineNumber.v,
                    applied.edit.original))
    => LET c == ContentIn(applied.filesBefore)
       IN  IF Occurs(c, applied.edit.original)
           THEN /\ applied.ok
                /\ ContentIn(files) = FirstReplaced(c, applied.edit.original,
                                                    applied.edit.replacement)
           ELSE /\ ~applied.ok
                /\ applied.error = ErrNotFound
                /\ files = applied.filesBefore
                /\ dirs = applied.dirsBefore

\* C14 witness: the snippet is on a line other than the addressed one, twice in
\* the file, and the edit went through.
C14_Witness ==
  /\ AppliedOne /\ applied.times = 1 /\ applied.ok
  /\ applied.edit.lineNumber = Num(1)
  /\ applied.edit.original = <<"a">>
  /\ ContentIn(applied.filesBefore) = <<"b", "\n", "a", "a">>

\* C14 witness of the failing case: the snippet is nowhere and no file is made.
C14_WitnessNotFound ==
  /\ AppliedOne /\ ~applied.ok /\ applied.error = ErrNotFound
  /\ files = <<>>

RECURSIVE OneByOne(_, _, _)
\* The file systems met when the proposals are applied one at a time, each by
\* its own applyEdit call on what the previous one left: the state before the
\* first call, then the state after each call, up to the first one that fails.
OneByOne(ds, fl, edits) ==
  IF edits = <<>> THEN << [ok |-> TRUE, error |-> "", dirs |-> ds, files |-> fl] >>
  ELSE LET out == applyEdit(ds, fl, ProjectRoot, Head(edits))
       IN  IF out.ok
           THEN << [ok |-> TRUE, error |-> "", dirs |-> ds, files |-> fl] >>
                  \o OneByOne(out.dirs, out.files, Tail(edits))
           ELSE << [ok |-> TRUE, error |-> "", dirs |-> ds, files |-> fl], out >>

\* C15: applyEdits applies the proposals in list order, one write at a time; when
\* proposal k fails, what the proposals before k wrote stays on disk and no
\* proposal after k is applied.
C15_InOrderNoRollback ==
  AppliedList
    => LET steps == OneByOne(applied.dirsBefore, applied.filesBefore, applied.edits)
           last == steps[Len(steps)]
       IN  /\ applied.ok = last.ok
           /\ applied.ok => Len(steps) = Len(applied.edits) + 1
           /\ ~applied.ok
                => /\ applied.error = last.error
                   \* the failing proposal is number Len(steps) - 1; it wrote no file
                   /\ last.files = steps[Len(steps) - 1].files
           /\ files = last.files
           /\ dirs = last.dirs

\* C15 witness: the second of three proposals fails after the first one changed
\* the disk, and the change is still there.
C15_Witness ==
  /\ AppliedList /\ ~applied.ok
  /\ Len(applied.edits) = 3 /\ applied.done = 1
  /\ files # applied.filesBefore
  /\ applyEdit(dirs, files, cwd, applied.edits[3]).ok

(***************************************************************************)
(* dedupeProposals and validateProposals on generated proposal lists.      *)
(***************************************************************************)
MaxProposals == 3

\* The longest list handed to validateProposals.
MaxValidated == 2

\* The proposals of a list handed to dedupeProposals: one proposal and the
\* proposals that differ from it in one field, or in the spelling of the file.
DedupeInputs ==
  LET base == [file |-> XFile, original |-> <<"a">>, replacement |-> <<"b">>,
               lineNumber |-> Null, explanation |-> <<"e">>]
  IN  { base,
        [base EXCEPT !.file = <<".", "/", "x">>],
        [base EXCEPT !.file = YFile],
        [base EXCEPT !.lineNumber = Num(1)],
        [base EXCEPT !.original = <<>>],
        [base EXCEPT !.replacement = <<"c">>],
        [base EXCEPT !.explanation = <<"f">>] }

\* The kinds of proposals in a list handed to validateProposals: a small harmless
\* one, one whose size fills a batch on its own (its explanation makes pSize equal
\* to MAX_CHARS), one that is one character longer than that, and one with a
\* denylisted replacement in mixed case.
ProposalKinds == { "plain", "bulky", "oversized", "sudo" }

BulkyExplanation == [ i \in 1..(MAX_CHARS - 67) |-> "e" ]

Proposals ==
  [ kind \in ProposalKinds |->
      [file |-> XFile, original |-> <<"a">>,
       replacement |-> IF kind = "sudo" THEN <<"S","u","d","o">> ELSE <<"b">>,
       lineNumber |-> Null,
       explanation |-> CASE kind = "bulky" -> BulkyExplanation
                         [] kind = "oversized" -> Append(BulkyExplanation, "e")
                         [] OTHER -> <<"e">>] ]

Proposed(kind) == Proposals[kind]

\* The verdict the Reasoning Service gives on proposal i of the list (0: on no
\* proposal of the list).
VerdictFor(i, valid) ==
  ValidationResult(valid,
                   IF valid THEN <<>> ELSE << <<"rejected proposal ", i>> >>,
                   << <<"reviewed proposal ", i>> >>)

\* What the Reasoning Service may answer to a batch: a text that does not parse,
\* or an array of verdicts, all approving or all rejecting, with one element
\* less than the batch, as many, or one more.
ResponseShapes ==
  { [parses |-> FALSE, extra |-> 0, valid |-> TRUE] }
    \cup { [parses |-> TRUE, extra |-> d, valid |-> v] : d \in {-1, 0, 1}, v \in BOOLEAN }

\* The answer of that shape to a batch, given the list indices of its proposals.
ResponseTo(batch, shape) ==
  IF ~shape.parses THEN [parses |-> FALSE, results |-> <<>>]
  ELSE [parses |-> TRUE,
        results |-> [ j \in 1..(Len(batch) + shape.extra) |->
                        VerdictFor(IF j <= Len(batch) THEN batch[j] ELSE 0, shape.valid) ]]

RECURSIVE BatchIndices(_, _)
\* The list indices of the proposals of each batch: indicesForLLM cut as
\* chunkProposals cut toLLM.
BatchIndices(indices, chunks) ==
  IF chunks = <<>> THEN <<>>
  ELSE << SubSeq(indices, 1, Len(chunks[1])) >>
         \o BatchIndices(SubSeq(indices, Len(chunks[1]) + 1, Len(indices)), Tail(chunks))

ProposalsInit ==
  /\ ExecIdle
  /\ ServiceIdle
  /\ CliIdle
  /\ EditIdle
  /\ command = <<>> /\ shellSafetyEnv = "unset" /\ safety = NotCalled /\ typed = 0

\* The call dedupeProposals(proposals).
DedupeCall ==
  /\ validation = NotCalled
  /\ \E n \in 0..MaxProposals : \E proposals \in [1..n -> DedupeInputs] :
       validation' = [called |-> TRUE, by |-> "dedupeProposals", proposals |-> proposals,
                      result |-> dedupeProposals(cwd, proposals)]
  /\ UNCHANGED <<cwd, dirs, files, editFile, pathTyped, applied>>

\* The call validateProposals(proposals), with the Reasoning Service's answer to
\* each batch.
ValidateListCall ==
  /\ validation = NotCalled
  /\ \E n \in 0..MaxValidated : \E kinds \in [1..n -> ProposalKinds] :
       LET proposals == [ i \in 1..n |-> Proposed(kinds[i]) ]
           indices == IndicesForLLM(cwd, proposals)
       IN  \E batches \in { BatchIndices(indices,
                              chunkProposals([ k \in 1..Len(indices) |->
                                                 proposals[indices[k]] ])) } :
           \E shapes \in [1..Len(batches) -> ResponseShapes] :
             LET responses == [ k \in 1..Len(batches) |-> ResponseTo(batches[k], shapes[k]) ]
             IN  validation' = [called |-> TRUE, by |-> "validateProposals",
                                kinds |-> kinds, batches |-> batches,
                                responses |-> responses,
                                result |-> validateProposals(cwd, proposals, responses)]
  /\ UNCHANGED <<cwd, dirs, files, editFile, pathTyped, applied>>

ProposalsNext ==
  \/ DedupeCall /\ UNCHANGED <<serviceVars, safetyVars, execVars, cliVars>>
  \/ ValidateListCall /\ UNCHANGED <<serviceVars, safetyVars, execVars, cliVars>>

SpecProposals == ProposalsInit /\ [][ProposalsNext]_vars

(***************************************************************************)
(* Claims about proposal lists (checked under SpecProposals).              *)
(***************************************************************************)
Deduped == validation.called /\ validation.by = "dedupeProposals"
ValidatedList == validation.called /\ validation.by = "validateProposals"

\* The four fields two proposals must share to be duplicates.
DedupeFields(q) == <<PathResolve(cwd, q.file), q.lineNumber, q.original, q.replacement>>

\* The proposals of a list that no earlier proposal of the list duplicates.
FirstOfEachKey(proposals) ==
  LET kept == SelectSeq([ i \in 1..Len(proposals) |-> i ],
                LAMBDA i : \A j \in 1..(i - 1) :
                             DedupeFields(proposals[j]) # DedupeFields(proposals[i]))
  IN  [ k \in 1..Len(kept) |-> proposals[kept[k]] ]

\* C16: dedupeProposals returns, in input order, the first proposal of each key
\* (resolved file path, lineNumber or null, original, replacement): proposals
\* equal in the four fields collapse to one, proposals that differ in any of
\* them are all kept.
C16_DedupeKeepsFirstOfEachKey ==
  Deduped => validation.result = FirstOfEachKey(validation.proposals)

\* C16 witness: of three proposals, the third names the file of the first in
\* another spelling and is dropped, the second differs only in lineNumber and
\* is kept.
C16_Witness ==
  /\ Deduped
  /\ Len(validation.proposals) = 3 /\ Len(validation.result) = 2
  /\ validation.proposals[3].file # validation.proposals[1].file
  /\ DedupeFields(validation.proposals[3]) = DedupeFields(validation.proposals[1])
  /\ validation.proposals[2] = [validation.proposals[1] EXCEPT !.lineNumber = Num(1)]

\* What the Reasoning Service answered about proposal i of a validated list:
\* the element for i in the answer to its batch, the parse-failure result when
\* that answer did not parse, the fallback when the answer has no element for i.
AnswerFor(i) ==
  LET k == CHOOSE b \in 1..Len(validation.batches) :
             \E j \in 1..Len(validation.batches[b]) : validation.batches[b][j] = i
      j == CHOOSE c \in 1..Len(validation.batches[k]) : validation.batches[k][c] = i
      response == validation.responses[k]
  IN  IF ~response.parses THEN ParseFailure
      ELSE IF j <= Len(response.results) THEN response.results[j] ELSE FALLBACK

\* The proposals of a validated list that preflight stopped.
FailedPreflight(i) == preflight(cwd, Proposed(validation.kinds[i])) # PreflightPass

\* C17 (as stated): validateProposals returns one result per proposal, and the
\* result at index i is the verdict for proposal i, whatever the preflight
\* failures, the number of batches and the answers of the Reasoning Service.
C17_ResultsAlignedWithProposals ==
  ValidatedList
    => /\ Len(validation.result) = Len(validation.kinds)
       /\ \A i \in 1..Len(validation.kinds) :
            validation.result[i] =
              IF FailedPreflight(i) THEN preflight(cwd, Proposed(validation.kinds[i]))
              ELSE AnswerFor(i)

\* The warnings that tell the user to proceed with caution.
Cautions == { ParseFailure.warnings[1], FALLBACK.warnings[1] }

\* C19 (as stated): when the answer to a batch does not parse, every proposal of
\* the batch is valid with a proceed-with-caution warning, and the proposals that
\* failed preflight in the same call stay invalid.
C19_UnparseableBatchNotBlocked ==
  ValidatedList
    => /\ \A k \in 1..Len(validation.batches) :
            ~validation.responses[k].parses
              => \A j \in 1..Len(validation.batches[k]) :
                   LET r == validation.result[validation.batches[k][j]]
                   IN  /\ r.isValid
                       /\ \E w \in 1..Len(r.warnings) : r.warnings[w] \in Cautions
       /\ \A i \in 1..Len(validation.kinds) :
            FailedPreflight(i) => ~validation.result[i].isValid

(***************************************************************************)
(* The classifier on generated command strings.                            *)
(***************************************************************************)
\* The pieces command strings are made of: separators, base commands of each
\* class (package manager, other allow-listed, destructive in mixed case,
\* unknown: "run" typed first), the run subcommand and the chaining operators.
CommandPieces ==
  { <<" ">>, <<"\t">>, <<"n","p","m">>, <<"l","s">>, <<"R","m">>, SUDO, RUN,
    <<";">>, <<"&","&">>, <<"|","|">> }

SafetyEnvValues == {"unset", "strict", "relaxed", "off"}

SafetyInit ==
  /\ ExecIdle
  /\ ServiceIdle
  /\ EditIdle
  /\ CliIdle
  /\ command = <<>>
  /\ shellSafetyEnv \in SafetyEnvValues
  /\ safety = NotCalled
  /\ typed = 0

\* The caller composes the command string, one piece at a time.
TypePiece ==
  /\ safety = NotCalled
  /\ typed < MaxPieces
  /\ \E p \in CommandPieces : command' = command \o p
  /\ typed' = typed + 1
  /\ UNCHANGED <<shellSafetyEnv, safety, execVars, editVars, cliVars, serviceVars>>

\* The call isCommandSafe(command).
Classify ==
  /\ safety = NotCalled
  /\ safety' = isCommandSafe(command)
  /\ UNCHANGED <<command, shellSafetyEnv, typed, execVars, editVars, cliVars, serviceVars>>

SafetyNext == TypePiece \/ Classify

SpecSafety == SafetyInit /\ [][SafetyNext]_vars

(***************************************************************************)
(* Claims about the shell safety classifier (checked under SpecSafety).    *)
(***************************************************************************)
\* Strict mode: AGENT_SHELL_SAFETY unset (the default) or "strict".
StrictMode == shellSafetyEnv \in {"unset", "strict"}
RelaxedMode == shellSafetyEnv \in {"relaxed", "off"}

\* The command string contains one of the chaining operators.
ContainsChainingOperator(cmd) ==
  \E i \in 1..Len(cmd) :
    \/ cmd[i] = ";"
    \/ i < Len(cmd) /\ cmd[i] = "&" /\ cmd[i + 1] = "&"
    \/ i < Len(cmd) /\ cmd[i] = "|" /\ cmd[i + 1] = "|"

\* The base token of a command: the characters of the trimmed command before
\* its first space, in lower case.
BaseTokenOf(cmd) ==
  LET t == Trim(cmd)
      sp == IndexOf(t, <<" ">>)
  IN  ToLowerCase(IF sp = 0 THEN t ELSE SubSeq(t, 1, sp - 1))

IsDestructive(base) == \E i \in 1..Len(DANGEROUS_COMMANDS) : DANGEROUS_COMMANDS[i] = base
IsAllowListed(base) == \E i \in 1..Len(SAFE_COMMANDS) : SAFE_COMMANDS[i] = base

\* The execution engine would run the command as <package manager> run <args>.
InvokesPackageRun(cmd) ==
  LET toks == ExecTokens(cmd)
  IN  /\ Len(toks) >= 2
      /\ \E i \in 1..Len(PACKAGE_MANAGERS) : PACKAGE_MANAGERS[i] = toks[1]
      /\ toks[2] = RUN

\* C4 (as stated): in strict mode every command that contains ';', '&&' or '||',
\* whatever its base token, is unsafe with a reason that mentions chaining.
C4_ChainingReasonAlways ==
  (StrictMode /\ safety.called /\ ContainsChainingOperator(command))
    => (~safety.safe /\ safety.reason = ReasonChaining)

\* C4 (amended): in strict mode every command that contains ';', '&&' or '||' is
\* unsafe; the reason mentions chaining unless the base token is in the
\* destructive list, and then the reason names that destructive command.
C4_ChainingRejected ==
  (StrictMode /\ safety.called /\ ContainsChainingOperator(command))
    => /\ ~safety.safe
       /\ safety.reason = IF IsDestructive(BaseTokenOf(command))
                          THEN ReasonDangerous(BaseTokenOf(command))
                          ELSE ReasonChaining

\* C4 witness: a chained command with an allow-listed base was classified.
C4_Witness ==
  /\ StrictMode
  /\ safety.called
  /\ ContainsChainingOperator(command)
  /\ IsAllowListed(BaseTokenOf(command))
  /\ safety.reason = ReasonChaining

\* C5: in strict mode every command whose base token is, case-insensitively, in
\* the destructive list is unsafe, and the verdict is the destructive-command one:
\* it is reached before the chaining, sudo and allow-list checks.
C5_DestructiveBaseRejectedFirst ==
  (StrictMode /\ safety.called /\ IsDestructive(BaseTokenOf(command)))
    => (~safety.safe /\ safety.reason = ReasonDangerous(BaseTokenOf(command)))

\* C5 witness: a command with a destructive base typed in mixed case, followed by
\* a chaining operator, was classified.
C5_Witness ==
  /\ StrictMode
  /\ safety.called
  /\ IsDestructive(BaseTokenOf(command))
  /\ ~IsDestructive(Split(Trim(command), " ")[1])
  /\ ContainsChainingOperator(command)

\* C6 (as stated): with AGENT_SHELL_SAFETY 'relaxed' or 'off' every (non-blank)
\* command is accepted; unset or 'strict', the strict rules decide.
C6_EnvToggleSelectsMode ==
  (safety.called /\ Trim(command) # <<>>) =>
    IF RelaxedMode THEN safety.safe ELSE safety = isCommandSafe(command)

\* C7 (as stated): in strict mode every command the execution engine would run as
\* <npm|yarn|pnpm> run ... is unsafe, for every spacing of the command string.
C7_PackageRunRejected ==
  (StrictMode /\ safety.called /\ InvokesPackageRun(command)) => ~safety.safe

\* C8 (as stated): in strict mode a command is safe exactly when it is non-empty,
\* has an allow-listed base token, no chaining operator, no 'sudo' and no
\* package-manager run subcommand.
C8_SafeExactly ==
  (StrictMode /\ safety.called) =>
    (safety.safe <=>
       /\ Trim(command) # <<>>
       /\ IsAllowListed(BaseTokenOf(command))
       /\ ~ContainsChainingOperator(command)
       /\ ~Includes(command, SUDO)
       /\ ~InvokesPackageRun(Trim(command)))


(***************************************************************************)
(* The CLI's main loop: src/src/cli.ts                                     *)
(***************************************************************************)
YES == <<"y","e","s">>
NO == <<"n","o">>

\* What the user may type at the "You >" prompt.
UserInputs ==
  { <<"e","x","i","t">>,
    <<" ","H","i","s","t","o","r","y">>,
    <<"p","a","t","t","e","r","n","s">>,
    <<"a","n"," ","e","r","r","o","r">>,
    <<"E","r","r","o","r",":"," ","x">>,
    <<"l","s">>,
    <<"r","u","n"," ","r","m"," ","x">>,
    <<"a","d","d"," ","x">> }

\* The command strings the Reasoning Service may put in an intent or a step.
CliCommands ==
  { <<"l","s">>, <<"r","m"," ","x">>, <<"c","d"," ","x">> }

\* What the user may answer to a review prompt.
Answers == { YES, <<"Y","e","s"," ">>, <<>>, NO, <<"f","i","x">> }

IsExit(userInput) == ToLowerCase(Trim(userInput)) = <<"e","x","i","t">>
IsHistoryOrPatterns(userInput) ==
  ToLowerCase(Trim(userInput)) \in
    { <<"h","i","s","t","o","r","y">>, <<"p","a","t","t","e","r","n","s">> }

\* The input has the substring error or the substring Error: in it.
MentionsError(userInput) ==
  \/ \E k \in 1..(Len(userInput) - 4) :
       SubSeq(userInput, k, k + 4) = <<"e","r","r","o","r">>
  \/ \E k \in 1..(Len(userInput) - 5) :
       SubSeq(userInput, k, k + 5) = <<"E","r","r","o","r",":">>

\* A test for the capitalised form only.
LooksLikeErrorMessage(userInput) == Includes(userInput, <<"E","r","r","o","r",":">>)

\* userInput.includes("Error:") || userInput.includes("error")
LooksLikeError(userInput) ==
  \/ Includes(userInput, <<"E","r","r","o","r",":">>)
  \/ Includes(userInput, <<"e","r","r","o","r">>)

\* The word characters of a regular expression (\w).
WordChars ==
  DOMAIN LowerOf \cup { LowerOf[c] : c \in DOMAIN LowerOf }
    \cup {"0","1","2","3","4","5","6","7","8","9","_"}

ShellWords ==
  { <<"l","s">>, <<"c","a","t">>, <<"p","w","d">>, <<"e","c","h","o">>,
    <<"p","r","i","n","t","f">>, <<"c","d">> }

RunWords == { <<"r","u","n">>, <<"e","x","e","c","u","t","e">> }

\* /^(run|execute)\s+/i matches
HasRunPrefix(trimmed) ==
  \E w \in RunWords :
    /\ StartsWith(ToLowerCase(trimmed), w)
    /\ Len(trimmed) > Len(w)
    /\ trimmed[Len(w) + 1] \in WhiteSpace

\* /^(ls|cat|pwd|echo|printf|cd)\b|^(run|execute)\s+/i matches
ShellLike(trimmed) ==
  \/ \E w \in ShellWords :
       /\ StartsWith(ToLowerCase(trimmed), w)
       /\ (Len(trimmed) = Len(w) \/ trimmed[Len(w) + 1] \notin WordChars)
  \/ HasRunPrefix(trimmed)

\* trimmed.replace(/^(run|execute)\s+/i, "")
StripRunPrefix(trimmed) ==
  IF HasRunPrefix(trimmed)
  THEN LET w == CHOOSE w \in RunWords : StartsWith(ToLowerCase(trimmed), w)
       IN  TrimStart(SubSeq(trimmed, Len(w) + 1, Len(trimmed)))
  ELSE trimmed

QuestionIntent ==
  [intentType |-> "question", action |-> "none", command |-> <<>>,
   hasSteps |-> FALSE, steps |-> <<>>]

ShellIntent(cmd) ==
  [intentType |-> "edit", action |-> "shell_command", command |-> cmd,
   hasSteps |-> FALSE, steps |-> <<>>]

CompoundIntent(hasSteps, steps) ==
  [intentType |-> "edit", action |-> "compound_action", command |-> <<>>,
   hasSteps |-> hasSteps, steps |-> steps]

ModifyIntent ==
  [intentType |-> "edit", action |-> "modify_code", command |-> <<>>,
   hasSteps |-> FALSE, steps |-> <<>>]

\* The steps of a compound intent: a shell step (its command may be missing) or
\* a code step.
Steps ==
  { [action |-> "shell_command", command |-> c] : c \in CliCommands \cup {<<>>} }
    \cup { [action |-> "modify_code", command |-> <<>>] }

\* The intents extractIntent may return (IntentSchema: command and steps optional).
Intents ==
  {QuestionIntent, ModifyIntent, CompoundIntent(FALSE, <<>>)}
    \cup { ShellIntent(c) : c \in CliCommands \cup {<<>>} }
    \cup { CompoundIntent(TRUE, ss) : ss \in UNION { [1..n -> Steps] : n \in 0..MaxSteps } }

\* The fast intent path of test mode (cli.ts 218-241).
TestModeIntent(userInput) ==
  LET trimmed == Trim(userInput)
  IN  IF ShellLike(trimmed) THEN ShellIntent(StripRunPrefix(trimmed)) ELSE ModifyIntent

\* The intents a turn may work on.
TurnIntents(userInput) ==
  IF testMode THEN {TestModeIntent(userInput)} ELSE Intents

IsOrdinaryInput(userInput) ==
  ~IsExit(userInput) /\ ~IsHistoryOrPatterns(userInput)
    /\ ~LooksLikeError(userInput)

\* Whether an ordinary input has error or Error: in it: the values there are.
OrdinaryInputMentions ==
  { MentionsError(u) : u \in { v \in UserInputs : IsOrdinaryInput(v) } }

\* The intents of the turns that start with an ordinary input.
OrdinaryTurnIntents ==
  UNION { TurnIntents(userInput) :
            userInput \in { u \in UserInputs : IsOrdinaryInput(u) } }

\* The test of the single shell branch (cli.ts 258-262).
IsShellTurn(i) ==
  i.intentType = "edit" /\ i.action = "shell_command" /\ i.command # <<>>

\* The test of the compound branch (cli.ts 415-419); an empty array is truthy.
IsCompoundTurn(i) ==
  i.intentType = "edit" /\ i.action = "compound_action" /\ i.hasSteps

\* /^cd\s+[^&|;]+$/i on the trimmed command
IsCdOnly(trimmedCmd) ==
  /\ Len(trimmedCmd) >= 4
  /\ ToLowerCase(SubSeq(trimmedCmd, 1, 2)) = <<"c","d">>
  /\ trimmedCmd[3] \in WhiteSpace
  /\ \A k \in 4..Len(trimmedCmd) : trimmedCmd[k] \notin {"&", "|", ";"}

\* A plausible slip: everything but "no" taken as consent.
ShellConfirmedUnlessNo(confirm) == ToLowerCase(confirm) # NO

\* confirm.toLowerCase() === "yes" (cli.ts 291, negated there)
ShellConfirmed(confirm) == ToLowerCase(confirm) = YES

\* fb === "yes" || fb === "" with fb = feedback.trim().toLowerCase() (cli.ts 546-547)
Accepted(feedback) == ToLowerCase(Trim(feedback)) \in {YES, <<>>}

\* A plausible slip: the answer compared with "n".
RejectedByLetter(feedback) == ToLowerCase(Trim(feedback)) = <<"n">>

\* fb === "no"
Rejected(feedback) == ToLowerCase(Trim(feedback)) = NO

\* A plausible slip: Enter taken as consent, as at the first review.
RevisionAcceptedOnEnter(revisionConfirm) ==
  ToLowerCase(Trim(revisionConfirm)) \in {YES, <<>>}

\* revisionConfirm.trim().toLowerCase() === "yes" (cli.ts 664, 819)
RevisionAccepted(revisionConfirm) == ToLowerCase(Trim(revisionConfirm)) = YES


\* The variables of the file system the main loop leaves alone in this model.
fsVars == <<dirs, files, editFile, pathTyped, applied, validation>>

\* The same but the record of the last validateEdits call.
diskVars == <<dirs, files, editFile, pathTyped, applied>>

\* The call validateEdits(proposals) of a turn (cli.ts 461, 720, 646, 801): phase
\* is "proposal" or "revision", step the compound step (0: not in the step
\* loop), results[k] the isValid of proposal k.
ValidateEdits(t, phase, step, results) ==
  validation' = [called |-> TRUE, by |-> "validateEdits", turn |-> t, phase |-> phase,
                 step |-> step, results |-> results]

\* A plausible slip: every instead of some.
EveryInvalid(results) == \A k \in 1..Len(results) : ~results[k]

\* stepInvalids.length > 0, revisedValidations.some((v) => !v.isValid)
SomeInvalid(results) == \E k \in 1..Len(results) : ~results[k]

\* The verdicts validateEdits may return on n proposals.
Validations(n) == [1..n -> BOOLEAN]

\* The directories resolveNavigationPath may find.
NavigationTargets == { ProjectRoot, <<>> }

\* What tells the proposals of one reply apart: the resolved file, the line
\* number, the original and the replacement, taken together.
ProposalIds == {"a", "b"}

\* A proposal, by the step it was made for (0: the single edit flow).
ProposalOf(step, revised) == [step |-> step, revised |-> revised, id |-> "a"]

\* What a search and proposal for a step may come to.
SearchOutcomes == {"match", "none", "throws"}

\* What running a subprocess may come to for the main loop: a ShellResult with
\* exit code 0 or not, or an exception nobody catches (see InteractiveSpawnError).
RunOutcomes == {"zero", "nonzero", "uncaught"}

Answer(prompt, text) == [prompt |-> prompt, text |-> text]

\* The assignment of the main loop's variables, but the environment and the turn.
Goto(pcv, int, pend, idx, props, out, jud, ans, han, eds) ==
  /\ pc' = pcv
  /\ intent' = int
  /\ pendingCommands' = pend
  /\ loopIndex' = idx
  /\ aggregatedProposals' = props
  /\ outcome' = out
  /\ judged' = jud
  /\ answers' = ans
  /\ handed' = han
  /\ editsApplied' = eds
  /\ UNCHANGED <<autoYes, testMode>>

\* The turn ends (continue): back to the prompt with the entry's outcome; the
\* variables of the loop body go out of scope.
EndTurn(out) ==
  Goto("prompt", NoIntent, <<>>, 0, <<>>, out, judged, answers, handed, editsApplied)

\* A new input is read: the previous turn's records are dropped.
NewTurn(pcv, int, pend, idx, props, out, jud) ==
  /\ turn' = turn + 1
  /\ Goto(pcv, int, pend, idx, props, out, jud, <<>>, <<>>, <<>>)

CliInit ==
  /\ ExecIdle
  /\ ServiceIdle
  /\ EditIdle
  /\ command = <<>> /\ shellSafetyEnv = "unset" /\ safety = NotCalled /\ typed = 0
  /\ autoYes \in BOOLEAN
  /\ testMode \in BOOLEAN
  /\ pc = "prompt"
  /\ turn = 0
  /\ errorInInput = FALSE
  /\ intent = NoIntent
  /\ pendingCommands = <<>>
  /\ loopIndex = 0
  /\ aggregatedProposals = <<>>
  /\ outcome = "none"
  /\ judged = {}
  /\ answers = <<>>
  /\ handed = <<>>
  /\ editsApplied = <<>>

\* "exit": the loop is left (cli.ts 154).
ReadExit ==
  /\ pc = "prompt" /\ turn < MaxTurns
  /\ \E userInput \in UserInputs : IsExit(userInput) /\ errorInInput' = MentionsError(userInput)
  /\ NewTurn("closed", NoIntent, <<>>, 0, <<>>, "none", {})
  /\ UNCHANGED cwd

\* "history" and "patterns": shown, no entry is made (cli.ts 157-181).
ReadHistoryOrPatterns ==
  /\ pc = "prompt" /\ turn < MaxTurns
  /\ \E userInput \in UserInputs :
       ~IsExit(userInput) /\ IsHistoryOrPatterns(userInput)
         /\ errorInInput' = MentionsError(userInput)
  /\ NewTurn("prompt", NoIntent, <<>>, 0, <<>>, "none", {})
  /\ UNCHANGED cwd

\* An input that looks like an error message (cli.ts 193-215).
ReadErrorInput ==
  /\ pc = "prompt" /\ turn < MaxTurns
  /\ \E userInput \in UserInputs :
       /\ ~IsExit(userInput) /\ ~IsHistoryOrPatterns(userInput)
       /\ LooksLikeError(userInput)
       /\ errorInInput' = MentionsError(userInput)
  /\ NewTurn("prompt", NoIntent, <<>>, 0, <<>>, "rejected", {})
  /\ UNCHANGED cwd

\* A question: answered by chatFallback, whose failure ends the loop (cli.ts 249-255).
TurnQuestion ==
  /\ pc = "prompt" /\ turn < MaxTurns
  /\ \E i \in OrdinaryTurnIntents :
       /\ i.intentType = "question"
       /\ errorInInput' \in OrdinaryInputMentions
       /\ \E answered \in BOOLEAN :
            IF answered
            THEN NewTurn("prompt", NoIntent, <<>>, 0, <<>>, "accepted", {})
            ELSE NewTurn("closed", NoIntent, <<>>, 0, <<>>, "error", {})
  /\ UNCHANGED cwd

\* A single shell command: classified, then previewed (cli.ts 258-289).
TurnShell ==
  /\ pc = "prompt" /\ turn < MaxTurns
  /\ \E i \in OrdinaryTurnIntents :
       /\ IsShellTurn(i)
       /\ errorInInput' \in OrdinaryInputMentions
       /\ LET safetyCheck == isCommandSafe(i.command)
              jud == {[command |-> i.command, safe |-> safetyCheck.safe]}
          IN  IF ~safetyCheck.safe
              THEN NewTurn("prompt", NoIntent, <<>>, 0, <<>>, "rejected", jud)
              ELSE NewTurn(IF autoYes THEN "execShell" ELSE "confirmShell",
                           i, <<>>, 0, <<>>, "error", jud)
  /\ UNCHANGED cwd

\* The answer to "Execute this command? [yes/no]" (cli.ts 285-303).
ConfirmShell ==
  /\ pc = "confirmShell"
  /\ \E confirm \in Answers :
       LET ans == Append(answers, Answer("confirmShell", confirm))
       IN  IF ~ShellConfirmed(confirm)
           THEN Goto("prompt", NoIntent, <<>>, 0, <<>>,
                     "rejected", judged, ans, handed, editsApplied)
           ELSE Goto("execShell", intent, pendingCommands, loopIndex, aggregatedProposals,
                     outcome, judged, ans, handed, editsApplied)
  /\ UNCHANGED <<turn, errorInInput, cwd>>

\* The confirmed command: a plain cd changes the directory of the process, any
\* other command is run in a subprocess (cli.ts 305-393).
ExecShell ==
  /\ pc = "execShell"
  /\ IF IsCdOnly(Trim(intent.command))
     THEN \/ EndTurn("error") /\ UNCHANGED cwd
          \/ \E target \in NavigationTargets : EndTurn("accepted") /\ cwd' = target
     ELSE /\ \E r \in RunOutcomes :
               Goto(IF r = "uncaught" THEN "crashed" ELSE "prompt",
                    NoIntent, <<>>, 0, <<>>,
                    IF r = "zero" THEN "accepted" ELSE "error",
                    judged, answers,
                    Append(handed, [command |-> intent.command, exit |-> r]), editsApplied)
          /\ UNCHANGED cwd
  /\ UNCHANGED <<turn, errorInInput>>


\* A compound intent: the loop over its steps starts (cli.ts 415-427).
TurnCompound ==
  /\ pc = "prompt" /\ turn < MaxTurns
  /\ \E i \in OrdinaryTurnIntents :
       /\ ~IsShellTurn(i) /\ IsCompoundTurn(i)
       /\ errorInInput' \in OrdinaryInputMentions
       /\ NewTurn("compoundSteps", i, <<>>, 1, <<>>, "error", {})
  /\ UNCHANGED cwd

\* A plausible slip: a failing step is skipped (continue) and the loop goes on.
CompoundStepSkippingFailures ==
  /\ pc = "compoundSteps"
  /\ loopIndex <= Len(intent.steps)
  /\ LET step == intent.steps[loopIndex]
         Leave(out, jud) ==
           Goto("compoundSteps", intent, pendingCommands, loopIndex + 1,
                aggregatedProposals, out, jud, answers, handed, editsApplied)
     IN  IF step.action = "shell_command" /\ step.command # <<>>
         THEN LET safetyCheck == isCommandSafe(step.command)
                  jud == judged \cup {[command |-> step.command, safe |-> safetyCheck.safe]}
              IN  /\ IF ~safetyCheck.safe
                     THEN Leave("rejected", jud)
                     ELSE Goto("compoundSteps", intent, Append(pendingCommands, step.command),
                               loopIndex + 1, aggregatedProposals, outcome, jud, answers,
                               handed, editsApplied)
                  /\ UNCHANGED validation
         ELSE \E found \in SearchOutcomes, results \in Validations(1) :
                CASE found = "throws" -> Leave("error", judged) /\ UNCHANGED validation
                  [] found = "none" -> Leave("error", judged) /\ UNCHANGED validation
                  [] found = "match" /\ SomeInvalid(results) ->
                       /\ Leave("rejected", judged)
                       /\ ValidateEdits(turn, "proposal", loopIndex, results)
                  [] OTHER ->
                       /\ Goto("compoundSteps", intent, pendingCommands, loopIndex + 1,
                               Append(aggregatedProposals, ProposalOf(loopIndex, FALSE)),
                               outcome, judged, answers, handed, editsApplied)
                       /\ ValidateEdits(turn, "proposal", loopIndex, results)
  /\ UNCHANGED <<turn, errorInInput, cwd>>

\* One round of the loop over the steps (cli.ts 427-503): a shell step is
\* classified and its command kept for later; any other step is searched,
\* proposed and validated. The first failing step leaves the main function. A
\* proposal stands for the proposals of its step.
CompoundStep ==
  /\ pc = "compoundSteps"
  /\ loopIndex <= Len(intent.steps)
  /\ LET step == intent.steps[loopIndex]
         Leave(out, jud) ==
           Goto("closed", NoIntent, <<>>, 0, <<>>, out, jud, answers, handed, editsApplied)
     IN  IF step.action = "shell_command" /\ step.command # <<>>
         THEN LET safetyCheck == isCommandSafe(step.command)
                  jud == judged \cup {[command |-> step.command, safe |-> safetyCheck.safe]}
              IN  /\ IF ~safetyCheck.safe
                     THEN Leave("rejected", jud)
                     ELSE Goto("compoundSteps", intent, Append(pendingCommands, step.command),
                               loopIndex + 1, aggregatedProposals, outcome, jud, answers,
                               handed, editsApplied)
                  /\ UNCHANGED validation
         ELSE \E found \in SearchOutcomes, results \in Validations(1) :
                CASE found = "throws" -> Leave("error", judged) /\ UNCHANGED validation
                  [] found = "none" -> Leave("error", judged) /\ UNCHANGED validation
                  [] found = "match" /\ SomeInvalid(results) ->
                       /\ Leave("rejected", judged)
                       /\ ValidateEdits(turn, "proposal", loopIndex, results)
                  [] OTHER ->
                       /\ Goto("compoundSteps", intent, pendingCommands, loopIndex + 1,
                               Append(aggregatedProposals, ProposalOf(loopIndex, FALSE)),
                               outcome, judged, answers, handed, editsApplied)
                       /\ ValidateEdits(turn, "proposal", loopIndex, results)
  /\ UNCHANGED <<turn, errorInInput, cwd>>

\* After the loop over the steps: the commands and proposals are shown; with
\* auto-confirmation the answer is "yes" at once (cli.ts 505-547).
CompoundPresent ==
  /\ pc = "compoundSteps"
  /\ loopIndex > Len(intent.steps)
  /\ Goto(IF autoYes THEN "runCommands" ELSE "reviewCompound",
          intent, pendingCommands, 1, aggregatedProposals, outcome, judged, answers,
          handed, editsApplied)
  /\ UNCHANGED <<turn, errorInInput, cwd>>

\* The answer to "Accept these change(s) and command(s)? [Yes / no / critique]"
\* (cli.ts 536-547, 630-687).
ReviewCompound ==
  /\ pc = "reviewCompound"
  /\ \E feedback \in Answers :
       LET ans == Append(answers, Answer("reviewCompound", feedback))
           revisedAll == [ k \in 1..Len(aggregatedProposals) |->
                             ProposalOf(aggregatedProposals[k].step, TRUE) ]
       IN  IF Accepted(feedback)
           THEN /\ Goto("runCommands", intent, pendingCommands, 1, aggregatedProposals,
                        outcome, judged, ans, handed, editsApplied)
                /\ UNCHANGED validation
           ELSE IF Rejected(feedback)
           THEN /\ Goto("prompt", NoIntent, <<>>, 0, <<>>,
                        "rejected", judged, ans, handed, editsApplied)
                /\ UNCHANGED validation
           ELSE \/ \E results \in Validations(Len(revisedAll)) :
                     /\ ValidateEdits(turn, "revision", 0, results)
                     /\ IF SomeInvalid(results)
                        THEN Goto("prompt", NoIntent, <<>>, 0, <<>>, "rejected", judged, ans,
                                  handed, editsApplied)
                        ELSE Goto("confirmCompoundRevision", intent, pendingCommands,
                                  loopIndex, revisedAll, outcome, judged, ans, handed,
                                  editsApplied)
                \* reviseProposal or validateEdits throws
                \/ /\ Goto("prompt", NoIntent, <<>>, 0, <<>>, "error", judged, ans, handed,
                            editsApplied)
                   /\ UNCHANGED validation
  /\ UNCHANGED <<turn, errorInInput, cwd>>

\* One round of the loop over pendingCommands after the acceptance (cli.ts
\* 548-623): a failing command is reported and the loop goes on.
RunPendingCommand ==
  /\ pc = "runCommands"
  /\ loopIndex <= Len(pendingCommands)
  /\ IF IsCdOnly(Trim(pendingCommands[loopIndex]))
     THEN \/ /\ Goto("runCommands", intent, pendingCommands, loopIndex + 1,
                     aggregatedProposals, "error", judged, answers, handed, editsApplied)
             /\ UNCHANGED cwd
          \/ \E target \in NavigationTargets :
               /\ Goto("runCommands", intent, pendingCommands, loopIndex + 1,
                       aggregatedProposals, outcome, judged, answers, handed,
                       editsApplied)
               /\ cwd' = target
     ELSE /\ \E r \in RunOutcomes :
               Goto(IF r = "uncaught" THEN "crashed" ELSE "runCommands",
                    intent, pendingCommands, loopIndex + 1, aggregatedProposals,
                    IF r = "zero" THEN outcome ELSE "error",
                    judged, answers,
                    Append(handed, [command |-> pendingCommands[loopIndex], exit |-> r]),
                    editsApplied)
          /\ UNCHANGED cwd
  /\ UNCHANGED <<turn, errorInInput>>

\* After the loop: applyEdits(aggregatedProposals) (cli.ts 625-629); its failure
\* is caught by the handler around the main loop only, which ends the loop.
ApplyAggregated ==
  /\ pc = "runCommands"
  /\ loopIndex > Len(pendingCommands)
  /\ \E ok \in BOOLEAN :
       Goto(IF ok THEN "prompt" ELSE "closed", NoIntent, <<>>, 0, <<>>,
            IF ok THEN "accepted" ELSE outcome,
            judged, answers, handed, Append(editsApplied, aggregatedProposals))
  /\ UNCHANGED <<turn, errorInInput, cwd>>

\* The answer to "Accept these revised change(s)? [yes / no]" of the compound
\* flow (cli.ts 660-685): the pending commands are not run.
ConfirmCompoundRevision ==
  /\ pc = "confirmCompoundRevision"
  /\ \E revisionConfirm \in Answers :
       LET ans == Append(answers, Answer("confirmCompoundRevision", revisionConfirm))
       IN  IF RevisionAccepted(revisionConfirm)
           THEN \E ok \in BOOLEAN :
                  Goto("prompt", NoIntent, <<>>, 0, <<>>,
                       IF ok THEN "modified" ELSE "error",
                       judged, ans, handed, Append(editsApplied, aggregatedProposals))
           ELSE Goto("prompt", NoIntent, <<>>, 0, <<>>,
                     "rejected", judged, ans, handed, editsApplied)
  /\ UNCHANGED <<turn, errorInInput, cwd>>

\* Any other intent is a single edit: search, proposal, validation, preview
\* (cli.ts 689-779).
TurnEdit ==
  /\ pc = "prompt" /\ turn < MaxTurns
  /\ \E i \in OrdinaryTurnIntents :
       /\ i.intentType # "question" /\ ~IsShellTurn(i) /\ ~IsCompoundTurn(i)
       /\ errorInInput' \in OrdinaryInputMentions
       /\ \E found \in SearchOutcomes, ok \in BOOLEAN :
          \E n \in 1..2 : \E results \in Validations(n) : \E ids \in [1..n -> ProposalIds] :
            LET proposals == [ k \in 1..n |-> [ProposalOf(0, FALSE) EXCEPT !.id = ids[k]] ]
            IN  CASE found = "throws" ->
                       /\ NewTurn("closed", NoIntent, <<>>, 0, <<>>, "error", {})
                       /\ UNCHANGED validation
                  [] found = "none" ->
                       /\ NewTurn("prompt", NoIntent, <<>>, 0, <<>>, "error", {})
                       /\ UNCHANGED validation
                  [] found = "match" /\ SomeInvalid(results) ->
                       /\ NewTurn("prompt", NoIntent, <<>>, 0, <<>>, "rejected", {})
                       /\ ValidateEdits(turn + 1, "proposal", 0, results)
                  [] found = "match" /\ ~SomeInvalid(results) /\ ~autoYes ->
                       /\ NewTurn("reviewEdit", i, <<>>, 0, proposals, "error", {})
                       /\ ValidateEdits(turn + 1, "proposal", 0, results)
                  [] OTHER ->
                       /\ turn' = turn + 1
                       /\ Goto("prompt", NoIntent, <<>>, 0, <<>>,
                               IF ok THEN "accepted" ELSE "error",
                               {}, <<>>, <<>>, <<proposals>>)
                       /\ ValidateEdits(turn + 1, "proposal", 0, results)
  /\ UNCHANGED cwd

\* The answer to "Accept these change(s)? [Yes / no / critique]" of the single
\* edit flow (cli.ts 774-840).
ReviewEdit ==
  /\ pc = "reviewEdit"
  /\ \E feedback \in Answers :
       LET ans == Append(answers, Answer("reviewEdit", feedback))
           revised == [ k \in 1..Len(aggregatedProposals) |->
                          [ProposalOf(aggregatedProposals[k].step, TRUE)
                             EXCEPT !.id = aggregatedProposals[k].id] ]
       IN  IF Accepted(feedback)
           THEN /\ \E ok \in BOOLEAN :
                     Goto("prompt", NoIntent, <<>>, 0, <<>>,
                          IF ok THEN "accepted" ELSE "error",
                          judged, ans, handed, Append(editsApplied, aggregatedProposals))
                /\ UNCHANGED validation
           ELSE IF Rejected(feedback)
           THEN /\ Goto("prompt", NoIntent, <<>>, 0, <<>>,
                        "rejected", judged, ans, handed, editsApplied)
                /\ UNCHANGED validation
           ELSE \/ \E results \in Validations(Len(revised)) :
                     /\ ValidateEdits(turn, "revision", 0, results)
                     /\ IF SomeInvalid(results)
                        THEN Goto("prompt", NoIntent, <<>>, 0, <<>>, "rejected", judged, ans,
                                  handed, editsApplied)
                        ELSE Goto("confirmEditRevision", intent, pendingCommands, loopIndex,
                                  revised, outcome, judged, ans, handed, editsApplied)
                \* reviseProposal or validateEdits throws
                \/ /\ Goto("prompt", NoIntent, <<>>, 0, <<>>, "error", judged, ans, handed,
                            editsApplied)
                   /\ UNCHANGED validation
  /\ UNCHANGED <<turn, errorInInput, cwd>>

\* The answer to "Accept these revised change(s)? [yes / no]" of the single edit
\* flow (cli.ts 815-830).
ConfirmEditRevision ==
  /\ pc = "confirmEditRevision"
  /\ \E revisionConfirm \in Answers :
       LET ans == Append(answers, Answer("confirmEditRevision", revisionConfirm))
       IN  IF RevisionAccepted(revisionConfirm)
           THEN \E ok \in BOOLEAN :
                  Goto("prompt", NoIntent, <<>>, 0, <<>>,
                       IF ok THEN "modified" ELSE "error",
                       judged, ans, handed, Append(editsApplied, aggregatedProposals))
           ELSE Goto("prompt", NoIntent, <<>>, 0, <<>>,
                     "rejected", judged, ans, handed, editsApplied)
  /\ UNCHANGED <<turn, errorInInput, cwd>>

Next ==
  \/ ReadExit /\ UNCHANGED <<serviceVars, safetyVars, execVars, fsVars>>
  \/ ReadHistoryOrPatterns /\ UNCHANGED <<serviceVars, safetyVars, execVars, fsVars>>
  \/ ReadErrorInput /\ UNCHANGED <<serviceVars, safetyVars, execVars, fsVars>>
  \/ TurnQuestion /\ UNCHANGED <<serviceVars, safetyVars, execVars, fsVars>>
  \/ TurnShell /\ UNCHANGED <<serviceVars, safetyVars, execVars, fsVars>>
  \/ ConfirmShell /\ UNCHANGED <<serviceVars, safetyVars, execVars, fsVars>>
  \/ ExecShell /\ UNCHANGED <<serviceVars, safetyVars, execVars, fsVars>>
  \/ TurnCompound /\ UNCHANGED <<serviceVars, safetyVars, execVars, fsVars>>
  \/ CompoundStep /\ UNCHANGED <<serviceVars, safetyVars, execVars, diskVars>>
  \/ CompoundPresent /\ UNCHANGED <<serviceVars, safetyVars, execVars, fsVars>>
  \/ ReviewCompound /\ UNCHANGED <<serviceVars, safetyVars, execVars, diskVars>>
  \/ RunPendingCommand /\ UNCHANGED <<serviceVars, safetyVars, execVars, fsVars>>
  \/ ApplyAggregated /\ UNCHANGED <<serviceVars, safetyVars, execVars, fsVars>>
  \/ ConfirmCompoundRevision /\ UNCHANGED <<serviceVars, safetyVars, execVars, fsVars>>
  \/ TurnEdit /\ UNCHANGED <<serviceVars, safetyVars, execVars, diskVars>>
  \/ ReviewEdit /\ UNCHANGED <<serviceVars, safetyVars, execVars, diskVars>>
  \/ ConfirmEditRevision /\ UNCHANGED <<serviceVars, safetyVars, execVars, fsVars>>

Spec == CliInit /\ [][Next]_vars

(***************************************************************************)
(* Claims about the main loop (checked under Spec).                        *)
(***************************************************************************)
\* The user has answered a review prompt of the shell or of the compound flow
\* with consent in this turn: "yes" in any case, or just Enter.
Affirmative(text) == ToLowerCase(Trim(text)) \in {YES, <<>>}

UserConfirmed ==
  \E k \in 1..Len(answers) :
    answers[k].prompt \in {"confirmShell", "reviewCompound"} /\ Affirmative(answers[k].text)

UserDeclined ==
  \E k \in 1..Len(answers) :
    answers[k].prompt \in {"confirmShell", "reviewCompound"} /\ ~Affirmative(answers[k].text)

JudgedUnsafe == \E j \in judged : ~j.safe

OnlyJudgedSafeIsHanded ==
  \A k \in 1..Len(handed) : [command |-> handed[k].command, safe |-> TRUE] \in judged

\* C1 (as stated): a command string is handed to executeShellCommand only if
\* isCommandSafe returned safe=true for that exact string and the user confirmed
\* the review before; after an unsafe classification or a negative confirmation
\* no subprocess is started in the turn.
C1_HandedOnlySafeAndConfirmed ==
  /\ handed # <<>> => (OnlyJudgedSafeIsHanded /\ UserConfirmed)
  /\ (JudgedUnsafe \/ UserDeclined) => handed = <<>>

\* C1 (amended): as stated, but the user's confirmation is required only when
\* auto-confirmation (AGENT_CLI_AUTO_YES) is off; with it on the review prompt is
\* skipped and the answer is taken to be "yes".
C1_HandedOnlySafeAndConfirmedUnlessAutoYes ==
  /\ handed # <<>> => (OnlyJudgedSafeIsHanded /\ (autoYes \/ UserConfirmed))
  /\ (JudgedUnsafe \/ UserDeclined) => handed = <<>>

\* C1 witness: without auto-confirmation, a command of a compound intent has been
\* handed to executeShellCommand after the user's consent.
C1_Witness ==
  /\ ~autoYes
  /\ handed # <<>>
  /\ UserConfirmed
  /\ intent.action = "compound_action"

\* Step k of the compound intent went through: its command was classified safe
\* and kept for later, or its proposal passed validation and was kept.
StepPassed(k) ==
  LET step == intent.steps[k]
  IN  IF step.action = "shell_command" /\ step.command # <<>>
      THEN /\ [command |-> step.command, safe |-> TRUE] \in judged
           /\ \E c \in 1..Len(pendingCommands) : pendingCommands[c] = step.command
      ELSE \E q \in 1..Len(aggregatedProposals) : aggregatedProposals[q].step = k

AllStepsPassed == \A k \in 1..Len(intent.steps) : StepPassed(k)

\* Nothing of this turn was put to the user for review, run or written.
NothingApplied == answers = <<>> /\ handed = <<>> /\ editsApplied = <<>>

CommandFailed == \E k \in 1..Len(handed) : handed[k].exit = "nonzero"

\* The commands run so far are the first pending commands, in step order.
RunInStepOrder ==
  /\ Len(handed) <= Len(pendingCommands)
  /\ \A k \in 1..Len(handed) : handed[k].command = pendingCommands[k]

\* C21 (as stated): after a compound action is accepted its pending commands run
\* in step order, and the first command that exits non-zero stops the action: no
\* later pending command is run and no edit of the action is applied.
C21_FirstFailureStopsAction ==
  /\ [](pc = "runCommands" => RunInStepOrder)
  /\ [][ (pc = "runCommands" /\ CommandFailed)
           => /\ handed' = handed
              /\ editsApplied' # editsApplied => aggregatedProposals = <<>> ]_vars

\* The prompts of the first review of proposals and of the second confirmation.
ReviewPrompts == {"reviewEdit", "reviewCompound"}
RevisionPrompts == {"confirmEditRevision", "confirmCompoundRevision"}

\* What the user typed, blanks and letter case apart.
Typed(text) == ToLowerCase(Trim(text))

\* The user answered the review of this turn with free text: a critique.
Critiqued ==
  \E k \in 1..Len(answers) :
    answers[k].prompt \in ReviewPrompts /\ Typed(answers[k].text) \notin {YES, NO, <<>>}

\* The user answered the second confirmation of this turn with yes.
RevisionConfirmed ==
  \E k \in 1..Len(answers) :
    answers[k].prompt \in RevisionPrompts /\ Typed(answers[k].text) = YES

\* The last validateEdits call was made in this turn on revised proposals and
\* found every one of them valid.
RevisionRevalidated ==
  /\ validation.called /\ validation.by = "validateEdits"
  /\ validation.turn = turn /\ validation.phase = "revision"
  /\ \A k \in 1..Len(validation.results) : validation.results[k]

\* C22: in the single edit flow and in the compound flow, proposals revised
\* from free-text feedback are applied only if every revised proposal
\* re-validated as valid and the user then answered the second confirmation
\* with yes; on that path the proposals presented first are never applied.
C22_RevisionNeedsRevalidationAndYes ==
  (Critiqued /\ editsApplied # <<>>)
    => /\ RevisionRevalidated
       /\ RevisionConfirmed
       /\ \A k \in 1..Len(editsApplied) : \A q \in 1..Len(editsApplied[k]) :
            editsApplied[k][q].revised

\* C22 witness: the revised proposals of a compound action were applied after
\* the second confirmation.
C22_Witness ==
  /\ Critiqued /\ editsApplied # <<>>
  /\ \E k \in 1..Len(answers) : answers[k].prompt = "confirmCompoundRevision"

\* The user answered the review of this turn with no.
DeclinedReview ==
  \E k \in 1..Len(answers) :
    answers[k].prompt \in ReviewPrompts /\ Typed(answers[k].text) = NO

EditValidationFailed ==
  /\ validation.called /\ validation.by = "validateEdits"
  /\ validation.turn = turn /\ validation.phase = "proposal" /\ validation.step = 0
  /\ \E k \in 1..Len(validation.results) : ~validation.results[k]

\* C24: in the single edit flow, when a proposal of the turn is invalid, no
\* proposal of the turn, valid or not, is put to the user or applied.
C24_SingleEditFailsFast ==
  EditValidationFailed
    => (pc = "prompt" /\ answers = <<>> /\ editsApplied = <<>> /\ aggregatedProposals = <<>>)

\* C24 witness: of two proposals the first one was valid, the second one not.
C24_Witness ==
  /\ EditValidationFailed
  /\ validation.results = <<TRUE, FALSE>>

\* C25 (as stated): a shell intent whose command is a cd-only command reaches
\* the confirmation and, once confirmed, changes the working directory to the
\* directory found without a subprocess, or reports an unresolvable target and
\* leaves the working directory as it was.
C25_CdChangesDirectory ==
  /\ [](\A j \in judged : IsCdOnly(Trim(j.command)) => j.safe)
  /\ [][ (pc = "execShell" /\ IsCdOnly(Trim(intent.command)))
           => /\ handed' = handed
              /\ cwd' # cwd => (cwd' \in NavigationTargets /\ outcome' = "accepted")
              /\ cwd' = cwd => outcome' \in {"accepted", "error"} ]_vars


ConfirmationPrompts == {"confirmShell"} \cup ReviewPrompts

\* C27 (as stated): at every confirmation prompt, for a command and for changes,
\* the empty answer is consent: the turn is not ended as rejected by it.
C27_EnterMeansYes ==
  [][ \A k \in 1..Len(answers') :
        (k > Len(answers) /\ answers'[k].prompt \in ConfirmationPrompts
           /\ answers'[k].text = <<>>)
          => outcome' # "rejected" ]_vars


\* Every command collected from the steps of the compound action has been handed
\* to executeShellCommand.
AllPendingRun(commands, ran) ==
  \A c \in 1..Len(commands) : \E h \in 1..Len(ran) : ran[h].command = commands[c]

\* C28 (as stated): when a compound action the user accepted, at the first
\* review or at the second confirmation after a critique, comes back to the
\* prompt, every pending command of the action has been run and the accepted
\* proposals have been applied.
C28_AcceptedCompoundRunsAndApplies ==
  [][ (pc' = "prompt"
        /\ \/ pc = "runCommands"
           \/ pc = "confirmCompoundRevision" /\ RevisionConfirmed')
        => /\ AllPendingRun(pendingCommands, handed')
           /\ Len(editsApplied') = Len(editsApplied) + 1 ]_vars


(***************************************************************************)
(* Intent classification: src/src/services/intentClassifier.ts and         *)
(* extractIntentWithContext of src/src/agent.ts                            *)
(***************************************************************************)
MaxReplyPieces == 2

\* What the user typed at the prompt.
Prompts == { <<"h","i">>, <<"f","i","x">> }

\* A reply of the Reasoning Service is a sequence of pieces: the fence that opens
\* a json block, the plain fence, a line break, and one of four bodies.
ReplyPieces ==
  {"FENCE_JSON", "FENCE", "\n", "QUESTION_JSON", "EDIT_JSON", "OTHER_JSON", "oops"}

RECURSIVE RepliesOfLength(_)
RepliesOfLength(n) ==
  IF n = 0 THEN { <<>> }
  ELSE { Append(t, p) : t \in RepliesOfLength(n - 1), p \in ReplyPieces }

Replies == UNION { RepliesOfLength(n) : n \in 0..MaxReplyPieces }

\* The values the bodies that are JSON stand for.
JsonValues ==
  [ QUESTION_JSON |-> [intentType |-> "question", question |-> <<"q">>],
    EDIT_JSON |-> [intentType |-> "edit", action |-> "modify_code",
                   target |-> <<"a">>, description |-> <<"d">>],
    OTHER_JSON |-> [steps |-> <<"s">>] ]

RECURSIVE RemoveFence(_, _)
\* text.replace(/<fence>\n?/g, ""): every fence goes, with the line break after it.
RemoveFence(text, fence) ==
  IF text = <<>> THEN <<>>
  ELSE IF Head(text) = fence
       THEN IF Len(text) > 1 /\ text[2] = "\n"
            THEN RemoveFence(SubSeq(text, 3, Len(text)), fence)
            ELSE RemoveFence(Tail(text), fence)
       ELSE <<Head(text)>> \o RemoveFence(Tail(text), fence)

\* cleaned (intentClassifier.ts 78, 98-100)
Cleaned(text) == RemoveFence(RemoveFence(text, "FENCE_JSON"), "FENCE")

\* JSON.parse: one JSON text, white space around it allowed.
JsonParse(cleaned) ==
  LET t == Trim(cleaned)
  IN  IF Len(t) = 1 /\ t[1] \in DOMAIN JsonValues
      THEN [ok |-> TRUE, value |-> JsonValues[t[1]]]
      ELSE [ok |-> FALSE]

\* intentSchema.parse: a question with its question, or an edit with its fields.
SchemaMatches(value) ==
  /\ "intentType" \in DOMAIN value
  /\ \/ value.intentType = "question" /\ "question" \in DOMAIN value
     \/ value.intentType = "edit" /\ {"action", "target", "description"} \subseteq DOMAIN value

\* The body of the try blocks: JSON.parse(cleaned), then intentSchema.parse.
ParseIntent(text) ==
  LET parsed == JsonParse(Cleaned(text))
  IN  IF parsed.ok /\ SchemaMatches(parsed.value) THEN parsed ELSE [ok |-> FALSE]

\* baseInstruction (intentClassifier.ts 19-74): the context, the user input, the rules.
BaseInstruction(prompt) == [userInput |-> prompt, corrective |-> FALSE, previous |-> <<>>]

\* A plausible slip: the correction asked for without the output to correct.
CorrectionPromptWithoutOutput(base, text) == [base EXCEPT !.corrective = TRUE]

\* correctionPrompt (intentClassifier.ts 88-96)
CorrectionPrompt(base, text) == [base EXCEPT !.corrective = TRUE, !.previous = text]

Returned(value) == [called |-> TRUE, threw |-> FALSE, value |-> value]

\* The catch of extractIntentWithContext (agent.ts 31-38).
FallbackIntent(prompt) == Returned([intentType |-> "question", question |-> prompt])

\* extractIntentWithContext(prompt) calls classifyIntent, which calls callLLM.
ExtractIntent ==
  /\ classifyPc = "idle"
  /\ \E prompt \in Prompts :
       /\ userPrompt' = prompt
       /\ llmCalls' = <<BaseInstruction(prompt)>>
  /\ classifyPc' = "first"
  /\ UNCHANGED <<llmReplies, extracted>>

\* The first callLLM settles (intentClassifier.ts 77-97): it throws, or its text
\* parses and is returned, or the correction is asked for.
FirstReply ==
  /\ classifyPc = "first"
  /\ \/ /\ extracted' = FallbackIntent(userPrompt)
        /\ classifyPc' = "done"
        /\ UNCHANGED <<llmCalls, llmReplies>>
     \/ \E raw \in Replies :
          LET text == Trim(raw)
              parsed == ParseIntent(text)
          IN  /\ llmReplies' = Append(llmReplies, text)
              /\ IF parsed.ok
                 THEN /\ extracted' = Returned(parsed.value)
                      /\ classifyPc' = "done"
                      /\ UNCHANGED llmCalls
                 ELSE /\ llmCalls' = Append(llmCalls, CorrectionPrompt(llmCalls[1], text))
                      /\ classifyPc' = "retry"
                      /\ UNCHANGED extracted
  /\ UNCHANGED userPrompt

\* The second callLLM settles (intentClassifier.ts 97-108): whatever is thrown
\* here leaves classifyIntent and is caught by extractIntentWithContext.
RetryReply ==
  /\ classifyPc = "retry"
  /\ \/ /\ extracted' = FallbackIntent(userPrompt)
        /\ UNCHANGED llmReplies
     \/ \E raw \in Replies :
          LET retryText == Trim(raw)
              parsed == ParseIntent(retryText)
          IN  /\ llmReplies' = Append(llmReplies, retryText)
              /\ extracted' = IF parsed.ok THEN Returned(parsed.value)
                              ELSE FallbackIntent(userPrompt)
  /\ classifyPc' = "done"
  /\ UNCHANGED <<userPrompt, llmCalls>>

IntentInit ==
  /\ ExecIdle
  /\ ServiceIdle
  /\ EditIdle
  /\ CliIdle
  /\ command = <<>>
  /\ shellSafetyEnv = "unset"
  /\ safety = NotCalled
  /\ typed = 0

IntentNext ==
  \/ ExtractIntent /\ UNCHANGED <<safetyVars, execVars, editVars, cliVars, searchVars, cacheVars, refVars>>
  \/ FirstReply /\ UNCHANGED <<safetyVars, execVars, editVars, cliVars, searchVars, cacheVars, refVars>>
  \/ RetryReply /\ UNCHANGED <<safetyVars, execVars, editVars, cliVars, searchVars, cacheVars, refVars>>

SpecIntent == IntentInit /\ [][IntentNext]_vars

\* C29: the Reasoning Service is called at most twice for one prompt; the
\* second call is made only when the first reply failed to parse or to match the
\* schema, and its prompt carries that reply; when the second reply fails too,
\* extractIntentWithContext does not throw and returns the question intent whose
\* question is the user's prompt.
C29_OneCorrectiveRetryThenQuestion ==
  /\ Len(llmCalls) <= 2
  /\ Len(llmCalls) = 2
       => /\ llmReplies # <<>>
          /\ ~ParseIntent(llmReplies[1]).ok
          /\ llmCalls[2].corrective
          /\ llmCalls[2].userInput = userPrompt
          /\ llmCalls[2].previous = llmReplies[1]
  /\ (classifyPc = "done" /\ Len(llmReplies) = 2 /\ ~ParseIntent(llmReplies[2]).ok)
       => /\ ~extracted.threw
          /\ extracted.value.intentType = "question"
          /\ extracted.value.question = userPrompt

\* C29 witness: both replies failed, the first for its schema and the second as
\* JSON, and the turn was given the fallback.
C29_Witness ==
  /\ classifyPc = "done"
  /\ Len(llmCalls) = 2 /\ Len(llmReplies) = 2
  /\ JsonParse(Cleaned(llmReplies[1])).ok /\ ~ParseIntent(llmReplies[1]).ok
  /\ ~JsonParse(Cleaned(llmReplies[2])).ok
  /\ extracted.called


(***************************************************************************)
(* Relevance search: src/src/commands/search.ts                            *)
(***************************************************************************)
MaxMatches == 2

\* The keywords searched for.
Keywords == { <<"K">>, <<"a","b">> }

\* The files of the project and their lines.
FileLines ==
  ( <<"/","p","/","x",".","t","s">> :> << <<"K">>, <<"z">> >> )
    @@ ( <<"/","p","/","l","o","/","y",".","t","s">>
           :> << <<"l","o">>, <<" ","k"," ","l","o">> >> )
    @@ ( <<"/","p","/","t","e","s","t","s","/","x",".","t","s">>
           :> << <<"K"," ","a","b">>, <<"l","o",".","a","b">> >> )

\* target, description and what the planner added to them.
SearchOptionsSet ==
  [ target : { <<>>, <<"l","o">> },
    description : { <<>>, <<"L","o","-","z">> },
    filenameKeywords : { <<>>, << <<"x">> >> },
    contentKeywords : { <<>> },
    newFileCandidates : { <<>>, << <<"n",".","t","s">> >> } ]

\* The rerank values the Reasoning Service may give a match: 0, 1/2 and 1, in halves.
RerankHalves == {0, 1, 2}

AlphaNum ==
  { "a","b","c","d","e","f","g","h","i","j","k","l","m","n","o","p","q","r","s","t",
    "u","v","w","x","y","z","0","1","2","3","4","5","6","7","8","9" }

RECURSIVE SplitNonAlphaNum(_, _)
\* str.split(/[^a-z0-9]+/g): the fields between the runs of other characters,
\* the empty fields at the two ends included.
SplitNonAlphaNum(str, field) ==
  IF str = <<>> THEN <<field>>
  ELSE IF Head(str) \in AlphaNum
       THEN SplitNonAlphaNum(Tail(str), Append(field, Head(str)))
       ELSE LET rest == Tail(str)
            IN  IF rest # <<>> /\ Head(rest) \notin AlphaNum
                THEN SplitNonAlphaNum(rest, field)
                ELSE <<field>> \o SplitNonAlphaNum(rest, <<>>)

\* tokens (search.ts 167-172)
Tokens(options) ==
  SelectSeq(SplitNonAlphaNum(ToLowerCase(options.target), <<>>)
              \o SplitNonAlphaNum(ToLowerCase(options.description), <<>>)
              \o options.filenameKeywords
              \o options.contentKeywords,
            LAMBDA t : t # <<>>)

\* /\.test\.[a-z0-9]+$/ and /\.spec\.[a-z0-9]+$/ on the base name
HasTaggedExtension(fileBase, tag) ==
  \E i \in 1..Len(fileBase) :
    /\ i + Len(tag) <= Len(fileBase)
    /\ SubSeq(fileBase, i, i + Len(tag) - 1) = tag
    /\ \A k \in (i + Len(tag))..Len(fileBase) : fileBase[k] \in AlphaNum

\* The condition of the penalty for tests, evaluations and fixtures (search.ts 186-198).
IsTestLike(lowerFile, fileBase) ==
  \/ Includes(lowerFile, <<"/","_","_","t","e","s","t","s","_","_","/">>)
  \/ Includes(lowerFile, <<"/","t","e","s","t","s","/">>)
  \/ Includes(lowerFile, <<"/","e","2","e","/">>)
  \/ Includes(lowerFile, <<"/","f","i","x","t","u","r","e","s","/">>)
  \/ Includes(lowerFile, <<"/","m","o","c","k","s","/">>)
  \/ Includes(lowerFile, <<"/","s","r","c","/","e","v","a","l","u","a","t","i","o","n","s","/">>)
  \/ HasTaggedExtension(fileBase, <<".","t","e","s","t",".">>)
  \/ HasTaggedExtension(fileBase, <<".","s","p","e","c",".">>)

RECURSIVE Hits(_, _, _, _)
\* hits: the loop over the tokens (search.ts 174-180)
Hits(tokens, lowerLine, lowerFile, fileBase) ==
  IF tokens = <<>> THEN 0
  ELSE LET t == Head(tokens)
       IN  (IF Includes(lowerLine, t) THEN 1 ELSE 0)
             + (IF Includes(lowerFile, t) THEN 2 ELSE 0)
             + (IF StartsWith(fileBase, t) \/ Includes(fileBase, t \o <<".">>) THEN 1 ELSE 0)
             + Hits(Tail(tokens), lowerLine, lowerFile, fileBase)

\* calculateRelevance(line, keyword, file, fileType, options)
calculateRelevance(line, kw, file, options) ==
  LET lowerLine == ToLowerCase(line)
      lowerKeyword == ToLowerCase(kw)
      lowerFile == ToLowerCase(file)
      fileBase == ToLowerCase(Basename(file))
  IN  (IF Includes(lowerLine, lowerKeyword) THEN 10 ELSE 0)
        + (IF Includes(line, kw) THEN 20 ELSE 0)
        + Hits(Tokens(options), lowerLine, lowerFile, fileBase) * 3
        + (IF options.target # <<>> /\ Includes(lowerFile, ToLowerCase(options.target))
           THEN 30 ELSE 0)
        - (IF IsTestLike(lowerFile, fileBase) THEN 40 ELSE 0)

RECURSIVE InsertByScore(_, _)
\* The place of a match in a list sorted by falling score, behind its equals.
InsertByScore(sorted, m) ==
  IF sorted = <<>> THEN <<m>>
  ELSE IF m.relevanceScore > Head(sorted).relevanceScore THEN <<m>> \o sorted
  ELSE <<Head(sorted)>> \o InsertByScore(Tail(sorted), m)

RECURSIVE SortByScore(_)
\* sort((a, b) => b.relevanceScore - a.relevanceScore), which is stable
SortByScore(ms) ==
  IF ms = <<>> THEN <<>>
  ELSE InsertByScore(SortByScore(SubSeq(ms, 1, Len(ms) - 1)), ms[Len(ms)])

\* The synthesized suggestion of a new file (search.ts 130-141); its score is 100.
NewFileMatch(wd, candidate) ==
  [file |-> PathString(wd) \o <<"/">> \o candidate, line |-> <<>>, lineNumber |-> 1,
   relevanceScore |-> 200]

SearchInit ==
  /\ ExecIdle
  /\ ClassifyIdle
  /\ CacheIdle
  /\ RefIdle
  /\ EditIdle
  /\ CliIdle
  /\ command = <<>>
  /\ shellSafetyEnv = "unset"
  /\ safety = NotCalled
  /\ typed = 0
  /\ keyword \in Keywords
  /\ searchOptions \in SearchOptionsSet
  /\ matches = <<>>
  /\ reranked = FALSE

\* One line of one file is scored (search.ts 82-98). relevanceScore is kept in
\* halves, so that the multipliers 0.5 to 1.5 of the re-rank give whole numbers.
ScoreLine ==
  /\ ~reranked
  /\ Len(matches) < MaxMatches
  /\ \E file \in DOMAIN FileLines : \E idx \in 1..Len(FileLines[file]) :
       LET line == FileLines[file][idx]
           relevance == calculateRelevance(line, keyword, file, searchOptions)
       IN  /\ \A k \in 1..Len(matches) :
                ~(matches[k].file = file /\ matches[k].lineNumber = idx)
           /\ relevance > 0
           /\ matches' = Append(matches, [file |-> file, line |-> Trim(line),
                                          lineNumber |-> idx,
                                          relevanceScore |-> 2 * relevance])
  /\ UNCHANGED <<keyword, searchOptions, reranked>>

\* The end of searchCodebase (search.ts 106-143): the matches are sorted,
\* re-ranked unless rerankMatches throws, sorted again, and replaced by the
\* suggestion of a new file when the best of them is weak.
FinishSearch ==
  /\ ~reranked
  /\ \E throws \in BOOLEAN :
     \E reranks \in [1..Len(matches) -> RerankHalves] :
       LET prelim == SortByScore(matches)
           multiplied ==
             IF Len(prelim) > 1 /\ ~throws
             THEN [ i \in 1..Len(prelim) |->
                      [prelim[i] EXCEPT !.relevanceScore =
                         (prelim[i].relevanceScore * (1 + reranks[i])) \div 2] ]
             ELSE prelim
           finalMatches == SortByScore(multiplied)
       IN  matches' =
             IF (finalMatches = <<>> \/ finalMatches[1].relevanceScore < 2 * 20)
                  /\ searchOptions.newFileCandidates # <<>>
             THEN <<NewFileMatch(cwd, searchOptions.newFileCandidates[1])>>
             ELSE finalMatches
  /\ reranked' = TRUE
  /\ UNCHANGED <<keyword, searchOptions>>

SearchNext ==
  \/ ScoreLine /\ UNCHANGED <<safetyVars, execVars, editVars, cliVars, classifyVars, cacheVars, refVars>>
  \/ FinishSearch /\ UNCHANGED <<safetyVars, execVars, editVars, cliVars, classifyVars, cacheVars, refVars>>

SpecSearch == SearchInit /\ [][SearchNext]_vars

\* The line of the match contains the keyword as it is written.
HasExactKeyword(m) == Includes(m.line, keyword)

\* The line of the match does not contain the keyword in any letter case and
\* contains a token of the target or of the description.
HasOnlyTokenOverlap(m) ==
  /\ ~Includes(ToLowerCase(m.line), ToLowerCase(keyword))
  /\ \E field \in {searchOptions.target, searchOptions.description} :
     LET tokens == SplitNonAlphaNum(ToLowerCase(field), <<>>)
     IN  \E k \in 1..Len(tokens) :
           tokens[k] # <<>> /\ Includes(ToLowerCase(m.line), tokens[k])

\* C30 (as stated): of two candidate lines, one containing the exact keyword as
\* a substring and the other having only a token overlap with target or
\* description, the first has the strictly higher relevance score.
C30_ExactOutranksTokenOverlap ==
  \A i, j \in 1..Len(matches) :
    (HasExactKeyword(matches[i]) /\ HasOnlyTokenOverlap(matches[j]))
      => matches[i].relevanceScore > matches[j].relevanceScore


\* C31 (as stated): a finished search never returns nothing and never returns
\* existing-file matches whose best final score is below the floor of 20: in
\* those cases the result is the one synthetic match for a new file.
C31_WeakSearchYieldsNewFile ==
  reranked => /\ matches # <<>>
              /\ matches[1].relevanceScore >= 2 * 20


\* Every pending command has been run, once and in step order.
EveryPendingRan ==
  /\ Len(handed) = Len(pendingCommands)
  /\ \A k \in 1..Len(handed) : handed[k].command = pendingCommands[k]

\* C32 (as stated): when the proposals of an accepted compound action are
\* applied, every pending command of the action has been run before, whatever
\* the order of the steps, and the step that applies them runs no command and
\* takes none back, whether the edits succeed or fail.
C32_CommandsBeforeEdits ==
  [][ (pc \in {"runCommands", "confirmCompoundRevision"}
         /\ Len(editsApplied') > Len(editsApplied)
         /\ aggregatedProposals # <<>>)
        => (EveryPendingRan /\ handed' = handed) ]_vars


\* The lists of proposals shown to the user or applied so far in this turn.
PresentedOrApplied ==
  { editsApplied[k] : k \in 1..Len(editsApplied) }
    \cup (IF pc \in {"reviewEdit", "confirmEditRevision"} THEN {aggregatedProposals} ELSE {})

\* C33 (as stated): in the single edit flow two proposals that agree in resolved
\* file, line number, original and replacement are never both presented to the
\* user or both applied in one turn.
C33_NoDuplicatePresentedOrApplied ==
  \A list \in PresentedOrApplied : \A i, j \in 1..Len(list) :
    (i < j /\ list[i].step = 0 /\ list[j].step = 0) => list[i].id # list[j].id


\* C34 (as stated): every result the validators return, validateEdit or
\* validateProposals with the Reasoning Service's verdicts included, that has
\* isValid false has a non-empty errors list.
C34_InvalidHasErrors ==
  (validation.called /\ validation.by \in {"validateEdit", "validateProposals"}
     /\ "edit" \in DOMAIN validation)
    => (~validation.result.isValid => validation.result.errors # <<>>)


RECURSIVE BatchSize(_)
\* The estimated size of a batch, given the list indices of its proposals.
BatchSize(batch) ==
  IF batch = <<>> THEN 0
  ELSE ProposalSize(Proposed(validation.kinds[Head(batch)])) + BatchSize(Tail(batch))

\* The list indices of the proposals that are delegated to the Reasoning Service.
Delegated ==
  SelectSeq([ i \in 1..Len(validation.kinds) |-> i ], LAMBDA i : ~FailedPreflight(i))

\* C35 (as stated): the batches chunkProposals makes of the delegated proposals
\* are non-empty, follow each other so that together they are the delegated
\* proposals in their order, and none of them has an estimated size above
\* MAX_CHARS, whatever the sizes of the proposals.
C35_BatchesWithinBudget ==
  ValidatedList
    => /\ Concat(validation.batches) = Delegated
       /\ \A b \in 1..Len(validation.batches) :
            /\ validation.batches[b] # <<>>
            /\ BatchSize(validation.batches[b]) <= MAX_CHARS

(***************************************************************************)
(* The search file-list cache: src/src/commands/search.ts 21-40, with the  *)
(* directory change of the CLI (cli.ts 329-330) and the creation of files  *)
(* (agent.ts 273-276).  The specification is SpecCache.                    *)
(***************************************************************************)
\* The number of searchCodebase calls a behaviour of SpecCache makes.
MaxSearches == 3

\* The number of files the disk of SpecCache comes to hold.
MaxFiles == 2

\* The directories of the project: /p, /p/s and the ignored /p/dist.
CacheDirs ==
  { <<>>, ProjectRoot, Append(ProjectRoot, <<"s">>),
    Append(ProjectRoot, <<"d", "i", "s", "t">>) }

\* The names a file has on the disk: two sources and a log file.
CacheFileNames == { <<"a", ".", "t", "s">>, <<"b", ".", "T", "S">>, <<"n", ".", "l", "o", "g">> }

\* The places where a file may be.
CachePaths == { Append(d, n) : d \in CacheDirs \ {<<>>}, n \in CacheFileNames }

\* The directory names getAllFiles does not descend into (search.ts 257-270).
IgnoredDirectories ==
  { <<"n", "o", "d", "e", "_", "m", "o", "d", "u", "l", "e", "s">>,
    <<".", "g", "i", "t">>, <<"d", "i", "s", "t">>, <<"b", "u", "i", "l", "d">>,
    <<"_", "_", "p", "y", "c", "a", "c", "h", "e", "_", "_">>,
    <<".", "v", "e", "n", "v">> }

\* allowedExtensions (search.ts 274-291), as far as the names of the model go.
AllowedExtensions == { <<".", "t", "s">>, <<".", "j", "s">>, <<".", "m", "d">> }

\* getAllFiles ignoring its argument: every listed file of the disk.
getAllFilesEverywhere(dir, ds, fl) ==
  { f \in DOMAIN fl : ToLowerCase(Extname(f[Len(f)])) \in AllowedExtensions }

\* getAllFiles(dir) (search.ts 248-306): the files below dir with an allowed
\* extension, the ignored directories not entered; [] when dir cannot be read.
getAllFiles(dir, ds, fl) ==
  IF dir \notin ds THEN {}
  ELSE { f \in DOMAIN fl :
           /\ Len(f) > Len(dir)
           /\ StartsWith(f, dir)
           /\ \A k \in (Len(dir) + 1)..(Len(f) - 1) : f[k] \notin IgnoredDirectories
           /\ ToLowerCase(Extname(f[Len(f)])) \in AllowedExtensions }

\* The test that never reuses the list.
CacheMissAlways(cache, wd) == TRUE

\* search.ts 36: !fileCache.list || fileCache.cwd !== cwd
CacheMiss(cache, wd) == ~cache.filled \/ cache.cwd # wd

\* resetSearchFileCache (search.ts 26-29)
resetSearchFileCache == EmptyFileCache

CacheInit ==
  /\ ExecIdle
  /\ ClassifyIdle
  /\ SearchIdle
  /\ RefIdle
  /\ CliIdle
  /\ command = <<>>
  /\ shellSafetyEnv = "unset"
  /\ safety = NotCalled
  /\ typed = 0
  /\ cwd = ProjectRoot
  /\ dirs = CacheDirs
  /\ \E present \in SUBSET CachePaths :
       /\ Cardinality(present) <= 1
       /\ files = [ f \in present |-> <<>> ]
  /\ editFile = <<>>
  /\ pathTyped = 0
  /\ applied = NotCalled
  /\ validation = NotCalled
  /\ fileCache = resetSearchFileCache
  /\ scanned = NotCalled

\* searchCodebase up to the scan (search.ts 34-41): the list is enumerated when
\* there is none or when it was made for another directory.  scanned keeps the
\* directory of the call, the list it goes on with, the directory that list was
\* enumerated for and what an enumeration at that moment would have given.
SearchCodebase ==
  /\ (scanned.called => scanned.n < MaxSearches)
  /\ \E wd \in { cwd } :
       \E cache \in { IF CacheMiss(fileCache, wd)
                      THEN [filled |-> TRUE, list |-> getAllFiles(wd, dirs, files), cwd |-> wd]
                      ELSE fileCache } :
         /\ fileCache' = cache
         /\ scanned' = [called |-> TRUE,
                        n |-> IF scanned.called THEN scanned.n + 1 ELSE 1,
                        cwd |-> wd,
                        files |-> cache.list,
                        enumeratedFor |-> cache.cwd,
                        fresh |-> getAllFiles(wd, dirs, files)]
  /\ UNCHANGED <<cwd, dirs, files>>

\* The directory change of the CLI (cli.ts 327-330, 571-574): process.chdir to a
\* directory that exists, then resetSearchFileCache.
ChangeDirectory ==
  /\ \E target \in dirs \ {<<>>} :
       /\ cwd' = target
       /\ fileCache' = resetSearchFileCache
  /\ UNCHANGED <<dirs, files, scanned>>

\* A file comes into being, by an applied edit (agent.ts 273-276) or a command.
CreateFile ==
  /\ Cardinality(DOMAIN files) < MaxFiles
  /\ \E f \in CachePaths \ DOMAIN files :
       \E w \in { WriteFile(dirs, files, cwd, PathString(f), <<>>) } :
         /\ w.ok
         /\ files' = w.files
  /\ UNCHANGED <<cwd, dirs, fileCache, scanned>>

CacheNext ==
  \/ SearchCodebase
       /\ UNCHANGED <<safetyVars, execVars, cliVars, classifyVars, searchVars, refVars,
                      editFile, pathTyped, applied, validation>>
  \/ ChangeDirectory
       /\ UNCHANGED <<safetyVars, execVars, cliVars, classifyVars, searchVars, refVars,
                      editFile, pathTyped, applied, validation>>
  \/ CreateFile
       /\ UNCHANGED <<safetyVars, execVars, cliVars, classifyVars, searchVars, refVars,
                      editFile, pathTyped, applied, validation>>

SpecCache == CacheInit /\ [][CacheNext]_vars

\* C36: after any sequence of searches, directory changes and file creations,
\* the file list a searchCodebase call goes on with was enumerated for the
\* working directory the process had at that call, and every file in it lies
\* below that directory: a list cached for another directory is never used.
C36_ListIsOfCurrentDirectory ==
  scanned.called
    => /\ scanned.enumeratedFor = scanned.cwd
       /\ \A f \in scanned.files : Len(f) > Len(scanned.cwd) /\ StartsWith(f, scanned.cwd)

\* C36 witness: a search in /p/s after a search in /p that had listed a file of
\* /p: the second search has a list, and none of /p is in it.
C36_Witness ==
  /\ scanned.called
  /\ scanned.n >= 2
  /\ scanned.cwd = Append(ProjectRoot, <<"s">>)
  /\ scanned.files # {}
  /\ \E f \in DOMAIN files : Parent(f) = ProjectRoot /\ f \in getAllFilesEverywhere(<<>>, dirs, files)

\* C39: a searchCodebase call made while fileCache holds a list for the working
\* directory goes on with that list and leaves fileCache as it is, whatever has
\* been created on the disk since the list was made: the list is not refreshed.
C39_CacheNeverRefreshed ==
  [][ (scanned' # scanned /\ fileCache.filled /\ fileCache.cwd = cwd)
        => (fileCache' = fileCache /\ scanned'.files = fileCache.list) ]_vars

\* C39 witness: a later search in the same directory whose list lacks a file
\* that an enumeration at that moment would have found.
C39_Witness ==
  /\ scanned.called
  /\ scanned.n >= 2
  /\ scanned.cwd = cwd
  /\ \E f \in scanned.fresh : f \notin scanned.files

\* C37 (as stated): no intent with action shell_command and no command, and no
\* intent with action compound_action and missing or empty steps, is worked on
\* by the main loop; in particular none is taken through the single edit flow.
C37_MalformedIntentNeverProcessed ==
  /\ ~(intent.action = "shell_command" /\ intent.command = <<>>)
  /\ ~(intent.action = "compound_action" /\ (~intent.hasSteps \/ intent.steps = <<>>))

\* C40: a turn whose input contains error or Error: is handled by the error
\* parser only: the loop is back at the prompt with no intent classified, no
\* command judged or run, no review asked and no edit applied, and the entry of
\* the turn has the outcome rejected.
C40_ErrorInputOnlyParsed ==
  errorInInput
    => /\ pc = "prompt"
       /\ intent = NoIntent
       /\ judged = {}
       /\ answers = <<>>
       /\ handed = <<>>
       /\ editsApplied = <<>>
       /\ outcome = "rejected"

\* C40 witness: the second turn of a session was given an input with error or
\* Error: in it.
C40_Witness ==
  /\ errorInInput
  /\ turn = 2
  /\ outcome = "rejected"

(***************************************************************************)
(* File references: src/utils/fileReference.ts (getFileReference), called  *)
(* concurrently by the validator (intentClassifier.ts 266-273).  The       *)
(* specification is SpecRef.  Every await is a point where another call    *)
(* may run; the code between two awaits runs without interruption.         *)
(***************************************************************************)
\* The number of getFileReference calls of a behaviour of SpecRef.
MaxCalls == 2

\* The contents references are asked for.
RefContents == { <<"a">>, <<"b">> }

\* createHash("sha256").update(content).digest("hex"): one hash per content.
Sha256(content) == <<"#">> \o content

\* The reference of a hash: <file:hash>
FileRef(hash) == <<"<", "f", "i", "l", "e", ":">> \o hash \o <<">">>

\* cache.json holding JSON.stringify of a map with the given hashes.
CacheFileOf(hashes) == [exists |-> TRUE, valid |-> TRUE, map |-> hashes]

\* cache.json holding the bytes of two overlapping writes: not JSON.
TornCacheFile == [exists |-> TRUE, valid |-> FALSE, map |-> {}]

\* A call as it stands after the look-up of its hash in CACHE (fileReference.ts
\* 30-33): resolved when CACHE has it, else waiting for ensureDir.
AfterLookup(call, cache) ==
  IF Sha256(call.content) \in cache
  THEN [call EXCEPT !.pc = "resolved", !.ref = FileRef(Sha256(call.content))]
  ELSE [call EXCEPT !.pc = "ensureDir"]

RefInit ==
  /\ ExecIdle
  /\ ClassifyIdle
  /\ SearchIdle
  /\ CacheIdle
  /\ EditIdle
  /\ CliIdle
  /\ command = <<>>
  /\ shellSafetyEnv = "unset"
  /\ safety = NotCalled
  /\ typed = 0
  /\ CACHE = {}
  /\ cacheJson \in { NoCacheFile, CacheFileOf({Sha256(<<"a">>)}) }
  /\ refCalls = <<>>

\* getFileReference(content) up to its first await (fileReference.ts 28-33):
\* with an empty CACHE it waits for loadCache, else it looks the hash up.
GetFileReference ==
  /\ Len(refCalls) < MaxCalls
  /\ \E content \in RefContents :
       LET call == [content |-> content, pc |-> "loadCache", ref |-> <<>>,
                    snapshot |-> {}, overlapped |-> FALSE]
       IN  refCalls' = Append(refCalls,
                              IF CACHE = {} THEN call ELSE AfterLookup(call, CACHE))
  /\ UNCHANGED <<CACHE, cacheJson>>

\* loadCache settles (fileReference.ts 14-21): the map of a cache.json that
\* parses is merged into CACHE, any failure is swallowed; then the look-up.
LoadCacheDone ==
  \E k \in 1..Len(refCalls) :
    /\ refCalls[k].pc = "loadCache"
    /\ \E loaded \in { IF cacheJson.exists /\ cacheJson.valid
                       THEN CACHE \cup cacheJson.map ELSE CACHE } :
         /\ CACHE' = loaded
         /\ refCalls' = [refCalls EXCEPT ![k] = AfterLookup(@, loaded)]
    /\ UNCHANGED cacheJson

\* ensureDir settles and the write of the content file is started (34-36).
EnsureDirDone ==
  \E k \in 1..Len(refCalls) :
    /\ refCalls[k].pc = "ensureDir"
    /\ refCalls' = [refCalls EXCEPT ![k].pc = "writeContent"]
    /\ UNCHANGED <<CACHE, cacheJson>>

\* The content file is written; CACHE[hash] = ref, and persistCache starts the
\* write of JSON.stringify(CACHE) as it is now (37-40, 23-25).  Writes of
\* cache.json that are in flight together are marked.
ContentWritten ==
  \E k \in 1..Len(refCalls) :
    /\ refCalls[k].pc = "writeContent"
    /\ \E stored \in { CACHE \cup {Sha256(refCalls[k].content)} } :
       \E others \in { { j \in 1..Len(refCalls) : refCalls[j].pc = "persistCache" } } :
         /\ CACHE' = stored
         /\ refCalls' =
              [ j \in 1..Len(refCalls) |->
                  IF j = k
                  THEN [refCalls[k] EXCEPT !.pc = "persistCache", !.snapshot = stored,
                                           !.overlapped = (others # {})]
                  ELSE IF j \in others THEN [refCalls[j] EXCEPT !.overlapped = TRUE]
                  ELSE refCalls[j] ]
    /\ UNCHANGED cacheJson

\* A write of cache.json settles and its call resolves (40-43).  Writes in
\* flight together settle in any order, and the file may be left with the bytes
\* of both (fs.writeFile is not safe to use concurrently on one file).
PersistCacheDone ==
  \E k \in 1..Len(refCalls) :
    /\ refCalls[k].pc = "persistCache"
    /\ cacheJson' \in {CacheFileOf(refCalls[k].snapshot)}
                        \cup (IF refCalls[k].overlapped THEN {TornCacheFile} ELSE {})
    /\ refCalls' = [refCalls EXCEPT ![k].pc = "resolved",
                                    ![k].ref = FileRef(Sha256(refCalls[k].content))]
    /\ UNCHANGED CACHE

RefNext ==
  \/ GetFileReference
       /\ UNCHANGED <<safetyVars, execVars, editVars, cliVars, classifyVars, searchVars,
                      cacheVars>>
  \/ LoadCacheDone
       /\ UNCHANGED <<safetyVars, execVars, editVars, cliVars, classifyVars, searchVars,
                      cacheVars>>
  \/ EnsureDirDone
       /\ UNCHANGED <<safetyVars, execVars, editVars, cliVars, classifyVars, searchVars,
                      cacheVars>>
  \/ ContentWritten
       /\ UNCHANGED <<safetyVars, execVars, editVars, cliVars, classifyVars, searchVars,
                      cacheVars>>
  \/ PersistCacheDone
       /\ UNCHANGED <<safetyVars, execVars, editVars, cliVars, classifyVars, searchVars,
                      cacheVars>>

SpecRef == RefInit /\ [][RefNext]_vars

AllResolved ==
  /\ refCalls # <<>>
  /\ \A k \in 1..Len(refCalls) : refCalls[k].pc = "resolved"

\* C38 (as stated): once the getFileReference calls that were made, one after
\* the other or concurrently, have all resolved, cache.json maps the SHA-256 of
\* the content of each of them to the reference it returned, and calls for the
\* same content returned the same reference.
C38_CacheFileMapsEveryReference ==
  AllResolved
    => /\ cacheJson.exists /\ cacheJson.valid
       /\ \A k \in 1..Len(refCalls) :
            /\ Sha256(refCalls[k].content) \in cacheJson.map
            /\ refCalls[k].ref = FileRef(Sha256(refCalls[k].content))
       /\ \A j, k \in 1..Len(refCalls) :
            refCalls[j].content = refCalls[k].content => refCalls[j].ref = refCalls[k].ref

=============================================================================
